---- MODULE Spec2Model ----
(***************************************************************************)
(* Session-region resolution and retry subsystem of the Stagehand Convex   *)
(* component (component/lib.ts, component/api.ts, component/schema.ts).     *)
(*                                                                         *)
(* Every public action (startSession, endSession, extract, act, observe,   *)
(* agent) is a sequential task run by a caller p.  Its atomic steps are    *)
(* the interactions with the outside world: one remote HTTP request with   *)
(* its response, or one transaction on the sessions table (ctx.runQuery /  *)
(* ctx.runMutation).  The local code that follows an interaction is part   *)
(* of the same step.  The remote service answers every request with any    *)
(* response it can produce; a successful session start returns a fresh     *)
(* session id.  Store transactions do not fail.                            *)
(***************************************************************************)
EXTENDS Integers, Sequences, FiniteSets, TLC

(* ------------------------------ bounds -------------------------------- *)
NumCallers == 2
MaxSessions == 1
MaxCalls == 2

(* ------------------------------ values -------------------------------- *)
None == "none"

\* type BrowserbaseRegion, isBrowserbaseRegion
BrowserbaseRegion == {"us-west-2", "us-east-1", "eu-central-1", "ap-southeast-1"}

DEFAULT_BROWSERBASE_REGION == "us-west-2"

\* A region string the service or a caller can produce that is not one of the
\* four literals (the error regex is case-insensitive, the type guard is not).
GarbledRegion == "US-EAST-1"

\* The regions callers declare and the service names in the runs.  The code
\* only compares regions for equality and looks up their host, so the three
\* regions other than the default are interchangeable; two of them are enough
\* for an initial region, a parsed one and a third named by a retry's error.
UsedRegions == {"us-west-2", "us-east-1", "eu-central-1"}

\* What can stand between the quotes of "Session is in region '...'" in a
\* response body; None: the phrase is absent.
Phrases == UsedRegions \cup {GarbledRegion, None}

\* A session of the service that this component did not create.
ForeignSessionId == "ext"

SessionIdOf(n) == "s" \o ToString(n)

Operations == {"extract", "act", "observe", "agent"}

isBrowserbaseRegion(value) == value \in BrowserbaseRegion

\* A handler that records the default region whatever the caller declared.
getRequestedRegion_Ignored(region) == None

getRequestedRegion(region) ==
    IF isBrowserbaseRegion(region) THEN region ELSE None

(* ------------------------- wire client (api.ts) ------------------------ *)
REGION_API_URLS ==
    [region \in BrowserbaseRegion |->
        CASE region = "us-west-2" -> "https://api.stagehand.browserbase.com"
          [] region = "us-east-1" -> "https://api.use1.stagehand.browserbase.com"
          [] region = "eu-central-1" -> "https://api.euc1.stagehand.browserbase.com"
          [] region = "ap-southeast-1" -> "https://api.apse1.stagehand.browserbase.com"]

\* A property name that every object literal inherits from Object.prototype;
\* it stands for the others (toString, valueOf, hasOwnProperty, ...).
InheritedKey == "constructor"

\* `${value}` of the inherited property: the source text of a native function.
InheritedText == "function Object() { [native code] }"

\* REGION_API_URLS[region] as JavaScript evaluates it: the own property, the
\* property inherited from Object.prototype, or undefined.
Property(region) ==
    IF region \in DOMAIN REGION_API_URLS THEN REGION_API_URLS[region]
    ELSE IF region = InheritedKey THEN InheritedText
    ELSE None

\* A getApiBase that sends every region to the default host.
getApiBase_AlwaysDefault(region) == REGION_API_URLS["us-west-2"] \o "/v1"

\* The base url a request for the given region is sent to; the region may be
\* absent or any string.
getApiBase(region) ==
    LET baseUrl == IF region # None /\ Property(region) # None
                   THEN Property(region)
                   ELSE REGION_API_URLS["us-west-2"]
    IN baseUrl \o "/v1"

\* The base urls fetch accepts: for anything else it rejects (TypeError).
ValidBases == {REGION_API_URLS[region] \o "/v1" : region \in BrowserbaseRegion}

\* JSON.stringify of an object given as a function from key paths to values:
\* a key whose value is undefined is left out.
stringify(object) ==
    [key \in {k \in DOMAIN object : object[k] # None} |-> object[key]]

\* The arguments of a wire-client function other than the region; text is the
\* url, instruction or action; options tells whether the caller set one of
\* the optional settings (model, timeout); params is
\* browserbaseSessionCreateParams, given as its region field, "absent" when
\* the object itself is left out.
NoArgs == [sessionId |-> None, text |-> None, options |-> FALSE, params |-> "absent"]

\* An agent endpoint in two path segments.
PathOf_AgentSlashExecute(fn, sessionId) ==
    IF fn = "startSession" THEN "/sessions/start"
    ELSE "/sessions/" \o sessionId \o "/" \o
         (IF fn = "endSession" THEN "end"
          ELSE IF fn = "agentExecute" THEN "agent/execute" ELSE fn)

\* The path of the request under the base url.
PathOf(fn, sessionId) ==
    IF fn = "startSession" THEN "/sessions/start"
    ELSE "/sessions/" \o sessionId \o "/" \o
         (IF fn = "endSession" THEN "end" ELSE fn)

\* The object without keys.
EmptyObject == [path \in {} |-> None]

\* An object literal nested under key: the key itself and its members.
Nested(key, members) ==
    [path \in {<<key>>} \cup {<<key, m>> : m \in DOMAIN members} |->
        IF path = <<key>> THEN "object" ELSE members[path[2]]]

\* `body.options = {...}` of extract, act and observe: set when one of the
\* optional settings is given.
OperationOptions(args) ==
    IF args.options
    THEN Nested("options", [model |-> "model", timeout |-> None])
    ELSE EmptyObject

\* A body that carries the caller's text under the key action.
ObjectOf_ActionKey(fn, args) == <<"action">> :> args.text

\* A body that names a region next to the caller's text.
ObjectOf_RegionInBody(fn, args) ==
    (<<"input">> :> args.text) @@ (<<"region">> :> DEFAULT_BROWSERBASE_REGION)

\* The object handed to JSON.stringify, by key path; endSession sends no body.
ObjectOf(fn, args) ==
    CASE fn = "startSession" ->
            (<<"modelName">> :> "openai/gpt-4o")
            @@ (IF args.params = "absent"
                THEN <<"browserbaseSessionCreateParams">> :> None
                ELSE Nested("browserbaseSessionCreateParams", [region |-> args.params]))
      [] fn = "navigate" ->
            (<<"url">> :> args.text)
            @@ Nested("options",
                      [waitUntil |-> "networkidle",
                       timeout |-> IF args.options THEN "timeout" ELSE None,
                       referer |-> None])
      [] fn = "extract" ->
            (<<"instruction">> :> args.text) @@ (<<"schema">> :> "schema")
            @@ OperationOptions(args)
      [] fn = "act" ->
            (<<"input">> :> args.text) @@ OperationOptions(args)
      [] fn = "observe" ->
            (<<"instruction">> :> args.text) @@ OperationOptions(args)
      [] fn = "agentExecute" ->
            Nested("agentConfig", [model |-> IF args.options THEN "model" ELSE None])
            @@ Nested("executeOptions", [instruction |-> args.text, maxSteps |-> None])
            @@ (<<"shouldCache">> :> None)
      [] fn = "endSession" -> EmptyObject

BodyOf(fn, args) == stringify(ObjectOf(fn, args))

\* The region a wire-client function routes by: its region argument, or for
\* startSession options?.browserbaseSessionCreateParams?.region.
RegionOf(fn, args, region) ==
    IF fn # "startSession" THEN region
    ELSE IF args.params = "absent" THEN None ELSE args.params

\* The success field of a JSON body as the service can send it: true, false,
\* left out, or a value such as 1 that is not the boolean true.
SuccessValues == {"true", "false", "absent", "1"}

\* JavaScript truthiness of the success field (what !json.success negates).
Truthy(value) == value \in {"true", "1"}

\* The data field of a JSON body: some payload, or left out.
DataValues == {"payload", None}

\* An HTTP exchange: fetch rejects (transport), or a response with a status
\* class and, in its JSON body, a success field, a data field and possibly
\* the phrase naming a region.
Responses ==
    [transport : {TRUE}, ok : {FALSE}, success : {"absent"}, phrase : {None},
     data : {None}]
    \cup [transport : {FALSE}, ok : BOOLEAN, success : SuccessValues, phrase : Phrases,
          data : DataValues]

NoError == [kind |-> None, phrase |-> None, step |-> None, att |-> 0]

\* handleResponse (and the same checks inlined in api.endSession): the Error
\* thrown for an exchange, NoError when it returns the data.  kind and phrase
\* are what the message carries; step and att are the identity of the Error
\* object: the remote step and the invocation that raised it.
handleResponse(r, step, att) ==
    IF r.transport
    THEN [kind |-> "transport", phrase |-> None, step |-> step, att |-> att]
    ELSE IF ~r.ok
    THEN [kind |-> "http", phrase |-> r.phrase, step |-> step, att |-> att]
    ELSE IF ~Truthy(r.success)
    THEN [kind |-> "flag", phrase |-> None, step |-> step, att |-> att]
    ELSE NoError

\* The Error object itself, apart from its message.
NoErrorId == [step |-> None, att |-> 0]

ErrorId(error) == [step |-> error.step, att |-> error.att]

\* The errors invocation att of a remote step raises for the responses rs.
ErrorsOf(rs, step, att) == {handleResponse(r, step, att) : r \in rs} \ {NoError}

\* Some response of rs makes the call return its data.
CanSucceed(rs) == {r \in rs : handleResponse(r, None, 0) = NoError} # {}

\* The data fields of the responses of rs that make the call return.
DataOf(rs) == {r.data : r \in {x \in rs : handleResponse(x, None, 0) = NoError}}

\* The TypeError of reading a property of undefined: `session.sessionId`
\* after api.startSession, `result.result` after the operation step.
DerefError(step, att) == [kind |-> "type", phrase |-> None, step |-> step, att |-> att]

\* A resolver that prefers the caller's hint to the stored region.
resolveSessionRegion_HintFirst(tbl, sessionId, fallback) ==
    IF fallback # None THEN fallback
    ELSE IF \E i \in 1..Len(tbl) : tbl[i].sessionId = sessionId
    THEN tbl[CHOOSE i \in 1..Len(tbl) : tbl[i].sessionId = sessionId].region
    ELSE None

\* A parser that folds case before the type guard.
extractRegionFromError_FoldCase(error) ==
    IF error.phrase = GarbledRegion THEN "us-east-1"
    ELSE IF isBrowserbaseRegion(error.phrase) THEN error.phrase ELSE None

extractRegionFromError(error) ==
    IF isBrowserbaseRegion(error.phrase) THEN error.phrase ELSE None

(* ----------------------- sessions table (schema.ts) -------------------- *)
NoPatch ==
    [sessionId |-> None, region |-> None, status |-> None, operation |-> None,
     url |-> None, endedAt |-> 0, error |-> None]

\* ctx.db.query("sessions").withIndex("by_sessionId", eq).first()
RowsOf(tbl, sessionId) == {i \in 1..Len(tbl) : tbl[i].sessionId = sessionId}

FirstRow(tbl, sessionId) ==
    CHOOSE i \in RowsOf(tbl, sessionId) : \A j \in RowsOf(tbl, sessionId) : i <= j

\* An upsert whose patch of an existing row leaves out endedAt.
upsertSessionMetadata_NoEndedAt(tbl, args, t) ==
    IF RowsOf(tbl, args.sessionId) # {}
    THEN LET i == FirstRow(tbl, args.sessionId)
             existing == tbl[i]
         IN [tbl EXCEPT ![i] =
                [existing EXCEPT
                   !.region = IF args.region # None THEN args.region ELSE @,
                   !.status = IF args.status # None THEN args.status ELSE @,
                   !.operation = IF args.operation # None THEN args.operation ELSE @,
                   !.url = IF args.url # None THEN args.url ELSE @,
                   !.error = IF args.error # None THEN args.error ELSE @]]
    ELSE Append(tbl,
                [sessionId |-> args.sessionId,
                 region    |-> args.region,
                 startedAt |-> t,
                 endedAt   |-> args.endedAt,
                 status    |-> IF args.status # None THEN args.status ELSE "active",
                 operation |-> IF args.operation # None THEN args.operation ELSE "workflow",
                 url       |-> IF args.url # None THEN args.url ELSE "",
                 error     |-> args.error])

\* An upsert that inserts without looking for an existing row.
upsertSessionMetadata_AlwaysInsert(tbl, args, t) ==
    Append(tbl,
           [sessionId |-> args.sessionId,
            region    |-> args.region,
            startedAt |-> t,
            endedAt   |-> args.endedAt,
            status    |-> IF args.status # None THEN args.status ELSE "active",
            operation |-> IF args.operation # None THEN args.operation ELSE "workflow",
            url       |-> IF args.url # None THEN args.url ELSE "",
            error     |-> args.error])

\* An upsert that writes an existing row anew from the arguments and the
\* defaults of the insert.
upsertSessionMetadata_Replace(tbl, args, t) ==
    LET row == [sessionId |-> args.sessionId,
                region    |-> args.region,
                startedAt |-> t,
                endedAt   |-> args.endedAt,
                status    |-> IF args.status # None THEN args.status ELSE "active",
                operation |-> IF args.operation # None THEN args.operation ELSE "workflow",
                url       |-> IF args.url # None THEN args.url ELSE "",
                error     |-> args.error]
    IN IF RowsOf(tbl, args.sessionId) # {}
       THEN [tbl EXCEPT ![FirstRow(tbl, args.sessionId)] = row]
       ELSE Append(tbl, row)

\* endedAt = 0 stands for an absent endedAt; Date.now() is positive.
upsertSessionMetadata(tbl, args, t) ==
    IF RowsOf(tbl, args.sessionId) # {}
    THEN LET i == FirstRow(tbl, args.sessionId)
             existing == tbl[i]
         IN [tbl EXCEPT ![i] =
                [sessionId |-> existing.sessionId,
                 region    |-> IF args.region # None THEN args.region ELSE existing.region,
                 startedAt |-> existing.startedAt,
                 endedAt   |-> IF args.endedAt # 0 THEN args.endedAt ELSE existing.endedAt,
                 status    |-> IF args.status # None THEN args.status ELSE existing.status,
                 operation |-> IF args.operation # None THEN args.operation
                               ELSE existing.operation,
                 url       |-> IF args.url # None THEN args.url ELSE existing.url,
                 error     |-> IF args.error # None THEN args.error ELSE existing.error]]
    ELSE Append(tbl,
                [sessionId |-> args.sessionId,
                 region    |-> args.region,
                 startedAt |-> t,
                 endedAt   |-> args.endedAt,
                 status    |-> IF args.status # None THEN args.status ELSE "active",
                 operation |-> IF args.operation # None THEN args.operation ELSE "workflow",
                 url       |-> IF args.url # None THEN args.url ELSE "",
                 error     |-> args.error])

getSessionRegion(tbl, sessionId) ==
    IF RowsOf(tbl, sessionId) # {} THEN tbl[FirstRow(tbl, sessionId)].region ELSE None

resolveSessionRegion(tbl, sessionId, fallback) ==
    LET storedRegion == getSessionRegion(tbl, sessionId)
    IN IF storedRegion # None THEN storedRegion ELSE fallback

(* ------------------------------- state --------------------------------- *)
VARIABLES
    sessions,        \* the sessions table, rows in creation order
    created,         \* number of sessions the service has created for this component
    ncalls,          \* number of public calls begun
    pc,              \* position of each caller in its call
    op,              \* the public action a caller runs
    ownSession,      \* extract/act/observe/agent: the call creates its own session
    sid,             \* sessionId of the call
    url,             \* args.url
    rawRegion,       \* args.browserbaseSessionCreateParams?.region
    resolvedRegion,  \* `resolvedRegion` of the action handler
    endRegion,       \* `resolvedRegion` of endSessionWithRouting
    rr,              \* the current runWithRegionRetry call
    pending,         \* the error caught by the handler, rethrown after safeEndSession
    result,          \* outcome of the public call
    effects,         \* what the call has done so far: requests sent per remote
                     \* step, reads and writes of the sessions table
    wire,            \* the wire-client function invoked directly, outside any
                     \* public call: its request, its response and its outcome
    value,           \* `result` of the handler: the data the operation step
                     \* returned, "unset" before
    wf               \* the run of the workflow action: its steps, its position,
                     \* its results list and the requests it has sent

vars == <<sessions, created, ncalls, pc, op, ownSession, sid, url, rawRegion,
          resolvedRegion, endRegion, rr, pending, result, effects, wire, value, wf>>

(* ------------------------------ workflow ------------------------------- *)
\* The longest list of steps a workflow is called with.
MaxSteps == 3

\* stepValidator: the four kinds of step.
StepTypes == {"navigate", "act", "extract", "observe"}

\* The url, action or instruction of a step.
StepTexts == {"a", "b"}

Steps == [type : StepTypes, text : StepTexts]

RECURSIVE StepLists(_)
\* The lists of at most n steps.
StepLists(n) ==
    IF n = 0 THEN {<<>>}
    ELSE LET shorter == StepLists(n - 1)
         IN shorter \cup {Append(l, st) : l \in {x \in shorter : Len(x) = n - 1}, st \in Steps}

\* The session ids the service gives to a workflow.
WorkflowIds == {"s1", "s2"}

\* at: where an error was raised (start, navigate, step, deref, end,
\* endCatch); step: the index of the step, 0 outside the loop.
NoFailure == [at |-> None, step |-> 0]

NoStepResult == [type |-> None, url |-> None, data |-> None]

\* No workflow is running.
NoWorkflow ==
    [pc |-> "idle", url |-> None, steps |-> <<>>, next |-> 0, results |-> <<>>,
     issued |-> <<>>, session |-> None, caught |-> NoFailure,
     outcome |-> None, thrown |-> NoFailure, finalResult |-> NoStepResult]

NoRR ==
    [step |-> None, initialRegion |-> None, attempts |-> <<>>, errors |-> <<>>,
     wrote |-> None, outcome |-> None, thrown |-> NoErrorId]

NewRR(step, initialRegion) ==
    [step |-> step, initialRegion |-> initialRegion, attempts |-> <<>>, errors |-> <<>>,
     wrote |-> None, outcome |-> "running", thrown |-> NoErrorId]

NoResult == [kind |-> None, error |-> NoErrorId, success |-> FALSE]

\* The handler's `result` before the operation step has returned.
Unset == "unset"

NoResponse ==
    [transport |-> FALSE, ok |-> FALSE, success |-> "absent", phrase |-> None,
     data |-> None]

NoWire ==
    [state |-> "idle", fn |-> None, args |-> NoArgs, region |-> None, base |-> None,
     path |-> None,
     body |-> EmptyObject, posts |-> 0, response |-> NoResponse, value |-> None,
     error |-> NoError]

\* hooks: the regions the onRegionResolved hooks of the call were given;
\* failed: the remote step (start, navigate, operate) whose error reached the
\* handler; ends: the times the call entered endSessionWithRouting.
NoEffects ==
    [start |-> 0, navigate |-> 0, operate |-> 0, end |-> 0, reads |-> 0, writes |-> 0,
     hooks |-> <<>>, failed |-> None, ends |-> 0]

\* The call of p performs one more effect of the given kind.
Count(p, what) == effects' = [effects EXCEPT ![p][what] = @ + 1]

\* The state after construction: the table is one of the given tables and no
\* call has begun.
InitFrom(Callers, tables) ==
    /\ sessions \in tables
    /\ created = 0
    /\ ncalls = 0
    /\ pc = [p \in Callers |-> "idle"]
    /\ op = [p \in Callers |-> None]
    /\ ownSession = [p \in Callers |-> FALSE]
    /\ sid = [p \in Callers |-> None]
    /\ url = [p \in Callers |-> None]
    /\ rawRegion = [p \in Callers |-> None]
    /\ resolvedRegion = [p \in Callers |-> None]
    /\ endRegion = [p \in Callers |-> None]
    /\ rr = [p \in Callers |-> NoRR]
    /\ pending = [p \in Callers |-> NoErrorId]
    /\ result = [p \in Callers |-> NoResult]
    /\ effects = [p \in Callers |-> NoEffects]
    /\ wire = NoWire
    /\ wf = NoWorkflow
    /\ value = [p \in Callers |-> Unset]

InitOf(Callers) == InitFrom(Callers, {<<>>})

\* One caller issuing public calls one after the other.
Init == InitOf({1})

\* The tables an earlier run can have left behind for the foreign session: no
\* row, or an active row with any region or (the field is optional) none.
LeftBehind ==
    {<<>>} \cup
    {upsertSessionMetadata(<<>>, [NoPatch EXCEPT !.sessionId = ForeignSessionId,
                                                 !.region = region,
                                                 !.status = "active"], 0) :
        region \in UsedRegions \cup {None}}

\* One caller starting from a table that an earlier run left behind.
InitLeftBehind == InitFrom({1}, LeftBehind)

\* Callers whose public calls run concurrently.
InitConcurrent == InitOf(1..NumCallers)

\* Date.now(): a clock that advances whenever a public call begins.
now == ncalls

(* ---------------------------- public calls ----------------------------- *)
Urls == {"https://example.com"}

RawRegions == UsedRegions \cup {GarbledRegion, None}

\* Session ids a caller can supply.
KnownIds == {ForeignSessionId} \cup {SessionIdOf(n) : n \in 1..created}

OrDefault(region) == IF region # None THEN region ELSE DEFAULT_BROWSERBASE_REGION

\* The caller may begin a call of the given kind: the environment's budget of
\* calls is not used up and, when it prescribes a sequence of calls, the kind
\* is the next one of the sequence.
MayCall(E, kind) ==
    /\ ncalls < E.maxCalls
    /\ E.script # <<>> => E.script[ncalls + 1] = kind

\* Session ids the caller supplies: any known one, or, when the environment
\* prescribes the calls, only ids that a start returned.
IdsIn(E) ==
    IF E.script = <<>> THEN KnownIds ELSE {SessionIdOf(n) : n \in 1..created}

\* The sessionId argument of an operation: absent (the operation creates its
\* own session) or a supplied id; a prescribed call is given a returned id.
TargetsIn(E) == IF E.script = <<>> THEN KnownIds \cup {None} ELSE IdsIn(E)

\* startSession handler up to its first await.
CallStartSession(p, E) ==
    /\ pc[p] = "idle"
    /\ UNCHANGED <<wire, value, wf>>
    /\ UNCHANGED effects
    /\ MayCall(E, "startSession")
    /\ \E u \in E.urls, raw \in E.rawRegions :
          /\ url' = [url EXCEPT ![p] = u]
          /\ rawRegion' = [rawRegion EXCEPT ![p] = raw]
          /\ resolvedRegion' =
                [resolvedRegion EXCEPT ![p] = OrDefault(getRequestedRegion(raw))]
    /\ op' = [op EXCEPT ![p] = "startSession"]
    /\ pc' = [pc EXCEPT ![p] = "start"]
    /\ ncalls' = ncalls + 1
    /\ UNCHANGED <<sessions, created, ownSession, sid, endRegion, rr, pending, result>>

\* endSession handler up to its first await (inside endSessionWithRouting).
CallEndSession(p, E) ==
    /\ pc[p] = "idle"
    /\ UNCHANGED <<wire, value, wf>>
    /\ UNCHANGED effects
    /\ MayCall(E, "endSession")
    /\ \E s \in IdsIn(E) : sid' = [sid EXCEPT ![p] = s]
    /\ op' = [op EXCEPT ![p] = "endSession"]
    /\ pc' = [pc EXCEPT ![p] = "endResolve"]
    /\ ncalls' = ncalls + 1
    /\ UNCHANGED <<sessions, created, ownSession, url, rawRegion, resolvedRegion,
                   endRegion, rr, pending, result>>

\* A precondition that lets every call through.
MissingTarget_Never(sessionId, u) == FALSE

\* if (!args.sessionId && !args.url) throw ...
MissingTarget(sessionId, u) == sessionId = None /\ u = None

\* extract / act / observe / agent handler up to its first await.
CallOperation(p, E) ==
    /\ pc[p] = "idle"
    /\ UNCHANGED <<wire, value, wf>>
    /\ UNCHANGED effects
    /\ ncalls < E.maxCalls
    /\ ncalls' = ncalls + 1
    /\ \E kind \in E.operations, s \in TargetsIn(E), u \in E.urls \cup {None},
          raw \in E.rawRegions \cup E.hints :
          /\ MayCall(E, kind)
          /\ raw \in (IF s = None THEN E.rawRegions ELSE E.hints)
          /\ op' = [op EXCEPT ![p] = kind]
          /\ IF MissingTarget(s, u)
             THEN /\ result' = [result EXCEPT ![p] =
                        [kind |-> "thrown", success |-> FALSE,
                         error |-> [step |-> "precondition", att |-> 0]]]
                  /\ pc' = [pc EXCEPT ![p] = "done"]
                  /\ UNCHANGED <<ownSession, sid, url, rawRegion, resolvedRegion>>
             ELSE /\ ownSession' = [ownSession EXCEPT ![p] = (s = None)]
                  /\ sid' = [sid EXCEPT ![p] = s]
                  /\ url' = [url EXCEPT ![p] = u]
                  /\ rawRegion' = [rawRegion EXCEPT ![p] = IF s = None THEN raw ELSE None]
                  /\ resolvedRegion' = [resolvedRegion EXCEPT ![p] =
                        IF s = None THEN OrDefault(getRequestedRegion(raw))
                        ELSE getRequestedRegion(raw)]
                  /\ pc' = [pc EXCEPT ![p] = IF s = None THEN "start" ELSE "resolve"]
                  /\ UNCHANGED result
    /\ UNCHANGED <<sessions, created, endRegion, rr, pending>>

(* --------------------------- remote session start ---------------------- *)
\* A handler that navigates whenever a url came with the call.
ShouldNavigate_AnyUrl(p) == op[p] = "startSession" \/ url[p] # None

\* if (ownSession && args.url) in the operation handlers; startSession
\* navigates unconditionally.
ShouldNavigate(p) == op[p] = "startSession" \/ (ownSession[p] /\ url[p] # None)

\* The first remote step of the handler on its session.
FirstStep(p) == IF ShouldNavigate(p) THEN "navigate" ELSE "operate"

OperationOf(o) == IF o \in {"extract", "act", "observe"} THEN o ELSE "workflow"

Finish(p, kind, error, success) ==
    /\ result' = [result EXCEPT ![p] = [kind |-> kind, error |-> error, success |-> success]]
    /\ pc' = [pc EXCEPT ![p] = "done"]

\* The answers to the start request: api.startSession looks up the host of
\* the region the caller declared, and fetch rejects a url that is none.
StartResponses(p, E) ==
    IF getApiBase(rawRegion[p]) \in ValidBases
    THEN E.responses
    ELSE {r \in E.responses : r.transport}

\* api.startSession: one POST to /sessions/start.  A failure leaves the
\* handler, and so does a response without data, at `session.sessionId`.
RemoteStart(p, E) ==
    /\ pc[p] = "start"
    /\ UNCHANGED <<wire, value, wf>>
    /\ \/ /\ \E e \in ErrorsOf(StartResponses(p, E), "start", 1)
                        \cup {DerefError("start", 1) :
                                 data \in DataOf(StartResponses(p, E)) \ {"payload"}} :
                Finish(p, "thrown", ErrorId(e), FALSE)
          /\ effects' = [effects EXCEPT ![p].start = @ + 1, ![p].failed = "start"]
          /\ rawRegion' = [rawRegion EXCEPT ![p] = None]
          /\ UNCHANGED <<created, sid>>
       \/ /\ "payload" \in DataOf(StartResponses(p, E))
          /\ Count(p, "start")
          /\ created < MaxSessions
          /\ created' = created + 1
          /\ sid' = [sid EXCEPT ![p] = SessionIdOf(created + 1)]
          /\ pc' = [pc EXCEPT ![p] = "persistStart"]
          /\ UNCHANGED <<result, rawRegion>>
    /\ UNCHANGED <<sessions, ncalls, op, ownSession, url, resolvedRegion, endRegion, rr,
                   pending>>

\* persistSessionMetadata after the start, then entry into the navigate step.
PersistStart(p) ==
    /\ pc[p] = "persistStart"
    /\ UNCHANGED <<wire, value, wf>>
    /\ Count(p, "writes")
    /\ sessions' = upsertSessionMetadata(sessions,
          [NoPatch EXCEPT !.sessionId = sid[p], !.region = resolvedRegion[p],
                          !.status = "active", !.operation = OperationOf(op[p]),
                          !.url = url[p]], now)
    /\ rr' = [rr EXCEPT ![p] = NewRR(FirstStep(p), resolvedRegion[p])]
    /\ pc' = [pc EXCEPT ![p] = "attempt1"]
    /\ rawRegion' = [rawRegion EXCEPT ![p] = None]
    /\ UNCHANGED <<created, ncalls, op, ownSession, sid, url,
                   resolvedRegion, endRegion, pending, result>>

\* resolveSessionRegion for a caller-supplied session, then entry into the operation step.
Resolve(p) ==
    /\ pc[p] = "resolve"
    /\ UNCHANGED <<wire, value, wf>>
    /\ Count(p, "reads")
    /\ LET region == resolveSessionRegion(sessions, sid[p], resolvedRegion[p])
       IN /\ resolvedRegion' = [resolvedRegion EXCEPT ![p] = region]
          /\ rr' = [rr EXCEPT ![p] = NewRR(FirstStep(p), region)]
    /\ pc' = [pc EXCEPT ![p] = "attempt1"]
    /\ UNCHANGED <<sessions, created, ncalls, op, ownSession, sid, url, rawRegion,
                   endRegion, pending, result>>

(* --------------------------- runWithRegionRetry ------------------------ *)
\* The region a session of a truthful service lives in: the service placed
\* the sessions it issued to this component in the default region, whatever
\* the start request declared, and the foreign session lives in another one.
TrueRegion(sessionId) ==
    IF sessionId = ForeignSessionId THEN "us-east-1" ELSE DEFAULT_BROWSERBASE_REGION

\* The answers to a session-scoped request sent for the given region.  A
\* truthful service accepts it at the host of the session's region and
\* rejects it anywhere else, naming that region.
ResponsesFor(E, sessionId, region) ==
    IF ~E.truthful THEN E.responses
    ELSE IF getApiBase(region) = getApiBase(TrueRegion(sessionId))
    THEN {r \in Responses : handleResponse(r, None, 0) = NoError}
    ELSE {r \in Responses : ~r.transport /\ ~r.ok /\ r.phrase = TrueRegion(sessionId)}

\* The catch block without its comparison to the region already tried.
ShouldRetry_NoCompare(parsedRegion, initialRegion) ==
    parsedRegion # None

\* The test of the catch block: a region was parsed and differs from the one tried.
ShouldRetry(parsedRegion, initialRegion) ==
    parsedRegion # None /\ parsedRegion # initialRegion

\* args.run(region) returns: some response of rs is a success, and the
\* operation step hands its data to the handler (`const result = await ...`).
Returns(p, rs) ==
    IF rr[p].step = "operate"
    THEN \E data \in DataOf(rs) : value' = [value EXCEPT ![p] = data]
    ELSE CanSucceed(rs) /\ UNCHANGED value

\* try { return await args.run(args.initialRegion) } catch ...
Attempt1(p, E) ==
    /\ pc[p] = "attempt1"
    /\ UNCHANGED <<wire, wf>>
    /\ Count(p, rr[p].step)
    /\ LET r1 == rr[p].initialRegion
       IN \/ /\ Returns(p, ResponsesFor(E, sid[p], r1))
             /\ rr' = [rr EXCEPT ![p].attempts = <<r1>>, ![p].outcome = "returned"]
             /\ pc' = [pc EXCEPT ![p] = "rrDone"]
          \/ /\ UNCHANGED value
             /\ \E e \in ErrorsOf(ResponsesFor(E, sid[p], r1), rr[p].step, 1) :
                IF ShouldRetry(extractRegionFromError(e), r1)
                THEN /\ rr' = [rr EXCEPT ![p].attempts = <<r1>>, ![p].errors = <<e>>]
                     /\ pc' = [pc EXCEPT ![p] = "persistRegion"]
                ELSE /\ rr' = [rr EXCEPT ![p].attempts = <<r1>>, ![p].errors = <<e>>,
                                         ![p].outcome = "thrown", ![p].thrown = ErrorId(e)]
                     /\ pc' = [pc EXCEPT ![p] = "rrDone"]
    /\ UNCHANGED <<sessions, created, ncalls, op, ownSession, sid, url, rawRegion,
                   resolvedRegion, endRegion, pending, result>>

\* A catch block that retries without the write and the hook.
PersistRegion_Skip(p) ==
    /\ pc[p] = "persistRegion"
    /\ UNCHANGED <<wire, value, wf>>
    /\ UNCHANGED effects
    /\ pc' = [pc EXCEPT ![p] = "attempt2"]
    /\ UNCHANGED <<sessions, created, ncalls, op, ownSession, sid, url, rawRegion,
                   resolvedRegion, endRegion, rr, pending, result>>

\* A catch block whose hook leaves the caller's region as it was.
PersistRegion_NoHook(p) ==
    /\ pc[p] = "persistRegion"
    /\ UNCHANGED <<wire, value, wf>>
    /\ effects' = [effects EXCEPT ![p].writes = @ + 1,
                                  ![p].hooks = Append(@, extractRegionFromError(rr[p].errors[1]))]
    /\ LET parsedRegion == extractRegionFromError(rr[p].errors[1])
           tbl == upsertSessionMetadata(sessions,
                     [NoPatch EXCEPT !.sessionId = sid[p], !.region = parsedRegion,
                                     !.status = "active"], now)
       IN /\ sessions' = tbl
          /\ rr' = [rr EXCEPT ![p].wrote = getSessionRegion(tbl, sid[p])]
    /\ pc' = [pc EXCEPT ![p] = "attempt2"]
    /\ UNCHANGED <<created, ncalls, op, ownSession, sid, url, rawRegion, pending,
                   result, resolvedRegion, endRegion>>

\* persistSessionMetadata({sessionId, region: parsedRegion, status: "active"}),
\* then the onRegionResolved hook of the call site.
PersistRegion(p) ==
    /\ pc[p] = "persistRegion"
    /\ UNCHANGED <<wire, value, wf>>
    /\ effects' = [effects EXCEPT ![p].writes = @ + 1,
                                  ![p].hooks = Append(@, extractRegionFromError(rr[p].errors[1]))]
    /\ LET parsedRegion == extractRegionFromError(rr[p].errors[1])
           tbl == upsertSessionMetadata(sessions,
                     [NoPatch EXCEPT !.sessionId = sid[p], !.region = parsedRegion,
                                     !.status = "active"], now)
       IN /\ sessions' = tbl
          /\ rr' = [rr EXCEPT ![p].wrote = getSessionRegion(tbl, sid[p])]
          /\ IF rr[p].step = "end"
             THEN /\ endRegion' = [endRegion EXCEPT ![p] = parsedRegion]
                  /\ UNCHANGED resolvedRegion
             ELSE /\ resolvedRegion' = [resolvedRegion EXCEPT ![p] = parsedRegion]
                  /\ UNCHANGED endRegion
    /\ pc' = [pc EXCEPT ![p] = "attempt2"]
    /\ UNCHANGED <<created, ncalls, op, ownSession, sid, url, rawRegion, pending,
                   result>>

\* A retry that runs against args.initialRegion again.
Attempt2_InitialRegion(p, E) ==
    /\ pc[p] = "attempt2"
    /\ UNCHANGED <<wire, wf>>
    /\ Count(p, rr[p].step)
    /\ LET r2 == rr[p].initialRegion
       IN \/ /\ Returns(p, ResponsesFor(E, sid[p], r2))
             /\ rr' = [rr EXCEPT ![p].attempts = Append(@, r2), ![p].outcome = "returned"]
          \/ /\ UNCHANGED value
             /\ \E e \in ErrorsOf(ResponsesFor(E, sid[p], r2), rr[p].step, 2) :
                rr' = [rr EXCEPT ![p].attempts = Append(@, r2),
                                 ![p].errors = Append(@, e),
                                 ![p].outcome = "thrown", ![p].thrown = ErrorId(e)]
    /\ pc' = [pc EXCEPT ![p] = "rrDone"]
    /\ UNCHANGED <<sessions, created, ncalls, op, ownSession, sid, url, rawRegion,
                   resolvedRegion, endRegion, pending, result>>

\* A retry that is itself retried when its error names another region.
Attempt2_Loop(p, E) ==
    /\ pc[p] = "attempt2"
    /\ UNCHANGED <<wire, wf>>
    /\ Count(p, rr[p].step)
    /\ LET r2 == extractRegionFromError(rr[p].errors[1])
       IN \/ /\ Returns(p, ResponsesFor(E, sid[p], r2))
             /\ rr' = [rr EXCEPT ![p].attempts = Append(@, r2), ![p].outcome = "returned"]
             /\ pc' = [pc EXCEPT ![p] = "rrDone"]
          \/ /\ UNCHANGED value
             /\ \E e \in ErrorsOf(ResponsesFor(E, sid[p], r2), rr[p].step, 2) :
                IF ShouldRetry(extractRegionFromError(e), r2) /\ Len(rr[p].attempts) < 3
                THEN /\ rr' = [rr EXCEPT ![p].attempts = Append(@, r2),
                                         ![p].errors = <<e>>]
                     /\ pc' = [pc EXCEPT ![p] = "persistRegion"]
                ELSE /\ rr' = [rr EXCEPT ![p].attempts = Append(@, r2),
                                         ![p].errors = Append(@, e),
                                         ![p].outcome = "thrown",
                                         ![p].thrown = ErrorId(e)]
                     /\ pc' = [pc EXCEPT ![p] = "rrDone"]
    /\ UNCHANGED <<sessions, created, ncalls, op, ownSession, sid, url, rawRegion,
                   resolvedRegion, endRegion, pending, result>>

\* A retry inside a loop: as long as the error names a region other than the
\* one just tried, the request is sent again to the region named.
Attempt2_Again(p, E) ==
    /\ pc[p] = "attempt2"
    /\ UNCHANGED <<wire, wf>>
    /\ LET r2 == extractRegionFromError(rr[p].errors[1])
       IN \/ /\ Returns(p, ResponsesFor(E, sid[p], r2))
             /\ Count(p, rr[p].step)
             /\ rr' = [rr EXCEPT ![p].attempts = Append(@, r2), ![p].outcome = "returned"]
             /\ pc' = [pc EXCEPT ![p] = "rrDone"]
          \/ /\ UNCHANGED value
             /\ \E e \in ErrorsOf(ResponsesFor(E, sid[p], r2), rr[p].step, 2) :
                IF ShouldRetry(extractRegionFromError(e), r2)
                THEN /\ rr' = [rr EXCEPT ![p].errors = <<e>>]
                     /\ UNCHANGED <<pc, effects>>
                ELSE /\ Count(p, rr[p].step)
                     /\ rr' = [rr EXCEPT ![p].attempts = Append(@, r2),
                                         ![p].errors = Append(@, e),
                                         ![p].outcome = "thrown",
                                         ![p].thrown = ErrorId(e)]
                     /\ pc' = [pc EXCEPT ![p] = "rrDone"]
    /\ UNCHANGED <<sessions, created, ncalls, op, ownSession, sid, url, rawRegion,
                   resolvedRegion, endRegion, pending, result>>

\* return args.run(parsedRegion)
Attempt2(p, E) ==
    /\ pc[p] = "attempt2"
    /\ UNCHANGED <<wire, wf>>
    /\ Count(p, rr[p].step)
    /\ LET r2 == extractRegionFromError(rr[p].errors[1])
       IN \/ /\ Returns(p, ResponsesFor(E, sid[p], r2))
             /\ rr' = [rr EXCEPT ![p].attempts = Append(@, r2), ![p].outcome = "returned"]
          \/ /\ UNCHANGED value
             /\ \E e \in ErrorsOf(ResponsesFor(E, sid[p], r2), rr[p].step, 2) :
                rr' = [rr EXCEPT ![p].attempts = Append(@, r2),
                                 ![p].errors = Append(@, e),
                                 ![p].outcome = "thrown", ![p].thrown = ErrorId(e)]
    /\ pc' = [pc EXCEPT ![p] = "rrDone"]
    /\ UNCHANGED <<sessions, created, ncalls, op, ownSession, sid, url, rawRegion,
                   resolvedRegion, endRegion, pending, result>>

(* ------------------- requests of the orchestrated call ----------------- *)
\* The wire-client function the `run` closure of a remote step calls.
WireFunctionOf(o, step) ==
    CASE step = "navigate" -> "navigate"
      [] step = "end" -> "endSession"
      [] step = "operate" -> IF o = "agent" THEN "agentExecute" ELSE o

\* The text the handler passes to the wire-client function: args.url for
\* navigate, args.instruction or args.action for the operation.
TextOf(p, step) == IF step = "navigate" THEN url[p] ELSE "instruction"

\* The request of attempt n of the current runWithRegionRetry call of p:
\* run(region) calls the wire-client function with the arguments of the
\* handler and the region of the attempt.  options tells whether the caller
\* set one of the optional settings.
RequestOf(p, n, options) ==
    LET fn == WireFunctionOf(op[p], rr[p].step)
        args == [NoArgs EXCEPT !.sessionId = sid[p], !.text = TextOf(p, rr[p].step),
                               !.options = options]
    IN [method |-> "POST", fn |-> fn,
        base |-> getApiBase(rr[p].attempts[n]),
        path |-> PathOf(fn, sid[p]),
        body |-> BodyOf(fn, args)]

\* The request of api.startSession in a handler: the caller's
\* browserbaseSessionCreateParams are passed on as they are.
StartRequestOf(p) ==
    LET args == [NoArgs EXCEPT !.params =
                    IF rawRegion[p] = None THEN "absent" ELSE rawRegion[p]]
    IN [method |-> "POST", fn |-> "startSession",
        base |-> getApiBase(RegionOf("startSession", args, None)),
        path |-> PathOf("startSession", None),
        body |-> BodyOf("startSession", args)]

(* ----------------- handler code around runWithRegionRetry -------------- *)
\* A handler that ends the session on failure whoever supplied it.
Owns_Always(p) == TRUE

\* Catch blocks of the operations that rethrow without ending the session.
Owns_StartOnly(p) == op[p] = "startSession"

\* The call owns the session it works on: startSession, or an operation
\* without a caller-supplied sessionId.
Owns(p) == op[p] = "startSession" \/ ownSession[p]

\* `result.result` of an operation handler throws: the operation step
\* returned a body without data.
Unusable(p) == op[p] \in Operations /\ value[p] = None

\* A handler whose navigate step is not awaited inside the try block: its
\* failure does not stop the handler.
Rejected_ExceptNavigate(p) == rr[p].outcome = "thrown" /\ rr[p].step # "navigate"

\* await runWithRegionRetry(...) threw.
Rejected(p) == rr[p].outcome = "thrown"

\* What the handler does when runWithRegionRetry returns or throws.
Continue(p) ==
    /\ pc[p] = "rrDone"
    /\ UNCHANGED <<wire, value, wf>>
    /\ effects' = IF rr[p].outcome = "thrown" /\ rr[p].step # "end"
                  THEN [effects EXCEPT ![p].failed = rr[p].step]
                  ELSE effects
    /\ IF rr[p].step = "end"
       THEN /\ pc' = [pc EXCEPT ![p] =
                  IF rr[p].outcome = "thrown" THEN "persistError" ELSE "persistCompleted"]
            /\ rr' = [rr EXCEPT ![p] = NoRR]
            /\ UNCHANGED <<pending, result>>
       ELSE IF Rejected(p)
       THEN IF Owns(p)
            THEN /\ pending' = [pending EXCEPT ![p] = rr[p].thrown]
                 /\ pc' = [pc EXCEPT ![p] = "endResolve"]
                 /\ rr' = [rr EXCEPT ![p] = NoRR]
                 /\ UNCHANGED result
            ELSE /\ Finish(p, "thrown", rr[p].thrown, FALSE)
                 /\ rr' = [rr EXCEPT ![p] = NoRR]
                 /\ UNCHANGED pending
       ELSE IF rr[p].step = "navigate" /\ op[p] # "startSession"
       THEN /\ rr' = [rr EXCEPT ![p] = NewRR("operate", resolvedRegion[p])]
            /\ pc' = [pc EXCEPT ![p] = "attempt1"]
            /\ UNCHANGED <<pending, result>>
       ELSE IF rr[p].step = "operate" /\ ownSession[p]
       THEN /\ pc' = [pc EXCEPT ![p] = "endResolve"]
            /\ rr' = [rr EXCEPT ![p] = NoRR]
            /\ UNCHANGED <<pending, result>>
       ELSE /\ IF Unusable(p)
               THEN Finish(p, "thrown", ErrorId(DerefError("return", 0)), FALSE)
               ELSE Finish(p, "returned", NoErrorId, TRUE)
            /\ rr' = [rr EXCEPT ![p] = NoRR]
            /\ UNCHANGED pending
    /\ UNCHANGED <<sessions, created, ncalls, op, ownSession, sid, url, rawRegion,
                   resolvedRegion, endRegion>>

(* -------------------------- endSessionWithRouting ---------------------- *)
\* let resolvedRegion = (await resolveSessionRegion(...)) ?? DEFAULT_BROWSERBASE_REGION
EndResolve(p) ==
    /\ pc[p] = "endResolve"
    /\ UNCHANGED <<wire, value, wf>>
    /\ effects' = [effects EXCEPT ![p].reads = @ + 1, ![p].ends = @ + 1]
    /\ LET fallbackRegion == IF op[p] = "endSession" THEN None ELSE resolvedRegion[p]
           region == OrDefault(resolveSessionRegion(sessions, sid[p], fallbackRegion))
       IN /\ endRegion' = [endRegion EXCEPT ![p] = region]
          /\ rr' = [rr EXCEPT ![p] = NewRR("end", region)]
    /\ pc' = [pc EXCEPT ![p] = "attempt1"]
    /\ UNCHANGED <<sessions, created, ncalls, op, ownSession, sid, url, rawRegion,
                   resolvedRegion, pending, result>>

EndError == "Failed to end Stagehand session"

\* What follows endSessionWithRouting: endSession returns {success};
\* safeEndSession drops the boolean, and the handler rethrows the error it
\* caught or builds its return value from `result.result`.  On the success
\* path that expression is still inside the try block: when it throws, the
\* catch block runs safeEndSession again and rethrows.
AfterEnd(p, ended) ==
    IF op[p] = "endSession"
    THEN Finish(p, "returned", NoErrorId, ended) /\ UNCHANGED pending
    ELSE IF pending[p] # NoErrorId
    THEN Finish(p, "thrown", pending[p], FALSE) /\ UNCHANGED pending
    ELSE IF Unusable(p)
    THEN /\ pending' = [pending EXCEPT ![p] = ErrorId(DerefError("return", 0))]
         /\ pc' = [pc EXCEPT ![p] = "endResolve"]
         /\ UNCHANGED result
    ELSE Finish(p, "returned", NoErrorId, TRUE) /\ UNCHANGED pending

\* An endSessionWithRouting whose catch block rethrows after its write.
EndPersist_Throw(p) ==
    /\ pc[p] \in {"persistCompleted", "persistError"}
    /\ UNCHANGED <<wire, value, wf>>
    /\ Count(p, "writes")
    /\ LET ended == pc[p] = "persistCompleted"
       IN /\ sessions' = upsertSessionMetadata(sessions,
                IF ended
                THEN [NoPatch EXCEPT !.sessionId = sid[p], !.region = endRegion[p],
                                     !.status = "completed", !.endedAt = now]
                ELSE [NoPatch EXCEPT !.sessionId = sid[p], !.region = endRegion[p],
                                     !.status = "error", !.error = EndError], now)
          /\ IF ~ended
             THEN /\ Finish(p, "thrown", [step |-> "end", att |-> 1], FALSE)
                  /\ UNCHANGED pending
             ELSE AfterEnd(p, ended)
    /\ UNCHANGED <<created, ncalls, op, ownSession, sid, url, rawRegion,
                   resolvedRegion, endRegion, rr>>

\* The final write of endSessionWithRouting, in its try block after the end
\* step returned or in its catch block, and the return to its caller:
\* endSession returns {success}; safeEndSession drops the boolean and the
\* handler returns its result or rethrows the error it caught.
EndPersist(p) ==
    /\ pc[p] \in {"persistCompleted", "persistError"}
    /\ UNCHANGED <<wire, value, wf>>
    /\ Count(p, "writes")
    /\ LET ended == pc[p] = "persistCompleted"
       IN /\ sessions' = upsertSessionMetadata(sessions,
                IF ended
                THEN [NoPatch EXCEPT !.sessionId = sid[p], !.region = endRegion[p],
                                     !.status = "completed", !.endedAt = now]
                ELSE [NoPatch EXCEPT !.sessionId = sid[p], !.region = endRegion[p],
                                     !.status = "error", !.error = EndError], now)
          /\ AfterEnd(p, ended)
    /\ UNCHANGED <<created, ncalls, op, ownSession, sid, url, rawRegion,
                   resolvedRegion, endRegion, rr>>

\* The caller takes the outcome; p is free for its next call.
Return(p) ==
    /\ pc[p] = "done"
    /\ UNCHANGED <<wire, wf>>
    /\ value' = [value EXCEPT ![p] = Unset]
    /\ effects' = [effects EXCEPT ![p] = NoEffects]
    /\ pc' = [pc EXCEPT ![p] = "idle"]
    /\ op' = [op EXCEPT ![p] = None]
    /\ ownSession' = [ownSession EXCEPT ![p] = FALSE]
    /\ sid' = [sid EXCEPT ![p] = None]
    /\ url' = [url EXCEPT ![p] = None]
    /\ rawRegion' = [rawRegion EXCEPT ![p] = None]
    /\ resolvedRegion' = [resolvedRegion EXCEPT ![p] = None]
    /\ endRegion' = [endRegion EXCEPT ![p] = None]
    /\ rr' = [rr EXCEPT ![p] = NoRR]
    /\ pending' = [pending EXCEPT ![p] = NoErrorId]
    /\ result' = [result EXCEPT ![p] = NoResult]
    /\ UNCHANGED <<sessions, created, ncalls>>

(* ------------------- wire-client functions called alone ---------------- *)
\* The exported functions of the wire client (api.ts).
WireFunctions ==
    {"startSession", "endSession", "navigate", "extract", "act", "observe",
     "agentExecute"}

\* navigate and endSession are Promise<void>: they return nothing.
ReturnsData(fn) == fn \notin {"navigate", "endSession"}

\* What callers pass to the wire-client functions.
WireTexts == {"click the button", "action"}

\* Region values a caller can pass: the four regions, none, and strings that
\* are no region.
WireRegionValues == BrowserbaseRegion \cup {GarbledRegion, InheritedKey, None}

WireArgs(fn) ==
    IF fn = "startSession"
    THEN [sessionId : {None}, text : {None}, options : {FALSE},
          params : WireRegionValues \cup {"absent"}]
    ELSE [sessionId : {ForeignSessionId, SessionIdOf(1)}, text : WireTexts,
          options : BOOLEAN, params : {"absent"}]

\* The region argument: startSession has none.
WireRegions(fn) == IF fn = "startSession" THEN {None} ELSE WireRegionValues

\* The fetch of a wire-client function: one POST to the base url of the region.
WireFetch ==
    /\ wire.state = "idle"
    /\ \E fn \in WireFunctions :
          \E args \in WireArgs(fn), region \in WireRegions(fn) :
             wire' = [NoWire EXCEPT !.state = "sent", !.fn = fn, !.args = args,
                         !.region = RegionOf(fn, args, region),
                         !.base = getApiBase(RegionOf(fn, args, region)),
                         !.path = PathOf(fn, args.sessionId),
                         !.body = BodyOf(fn, args),
                         !.posts = 1]
    /\ UNCHANGED <<sessions, created, ncalls, pc, op, ownSession, sid, url, rawRegion,
                   resolvedRegion, endRegion, rr, pending, result, effects, value, wf>>

\* The response arrives (or fetch rejects) and handleResponse, or the same
\* checks written out in endSession, settle the invocation.
WireSettle ==
    /\ wire.state = "sent"
    /\ \E r \in Responses :
          /\ wire.base \notin ValidBases => r.transport
          /\ LET error == handleResponse(r, wire.fn, 1)
             IN wire' = [wire EXCEPT
                           !.state = IF error = NoError THEN "returned" ELSE "thrown",
                           !.response = r,
                           !.error = error,
                           !.value = IF error = NoError /\ ReturnsData(wire.fn)
                                     THEN r.data ELSE None]
    /\ UNCHANGED <<sessions, created, ncalls, pc, op, ownSession, sid, url, rawRegion,
                   resolvedRegion, endRegion, rr, pending, result, effects, value, wf>>

\* The caller takes the outcome of the invocation.
WireReturn ==
    /\ wire.state \in {"returned", "thrown"}
    /\ wire' = NoWire
    /\ UNCHANGED <<sessions, created, ncalls, pc, op, ownSession, sid, url, rawRegion,
                   resolvedRegion, endRegion, rr, pending, result, effects, value, wf>>

(* ------------------- the upsert mutation called alone ------------------ *)
\* The arguments the mutation is called with: a session id, possibly a
\* region, a status (completed along with endedAt, error along with the
\* message) and possibly operation and url.
Patches(t) ==
    {[sessionId |-> s, region |-> region, status |-> status,
      operation |-> IF described THEN "extract" ELSE None,
      url |-> IF described THEN "https://example.com" ELSE None,
      endedAt |-> IF status = "completed" THEN t ELSE 0,
      error |-> IF status = "error" THEN EndError ELSE None] :
        s \in {ForeignSessionId, SessionIdOf(1)},
        region \in UsedRegions \cup {None},
        status \in {"active", "completed", "error", None},
        described \in BOOLEAN}

\* ctx.runMutation(internal.lib.upsertSessionMetadata, args): one transaction.
StoreUpsert ==
    /\ ncalls < MaxCalls
    /\ ncalls' = ncalls + 1
    /\ \E args \in Patches(ncalls + 1) :
          sessions' = upsertSessionMetadata(sessions, args, ncalls + 1)
    /\ UNCHANGED <<created, pc, op, ownSession, sid, url, rawRegion, resolvedRegion,
                   endRegion, rr, pending, result, effects, wire, value, wf>>

(* ------------------------ workflow (earlier lib) ----------------------- *)
\* What a wire-client call of the workflow does: it throws, or it returns
\* the data field of the response, which may be missing.
WorkflowReplies == {"thrown"} \cup DataOf(Responses)

\* The workflow has sent one more request.
Sent(w, fn, sessionId, text) ==
    [w EXCEPT !.issued = Append(@, [fn |-> fn, sessionId |-> sessionId, text |-> text])]

\* The handler is called with a url and a list of steps.
WorkflowCall ==
    /\ wf.pc = "idle"
    /\ \E steps \in StepLists(MaxSteps), u \in Urls :
          wf' = [NoWorkflow EXCEPT !.pc = "start", !.steps = steps, !.url = u]
    /\ UNCHANGED <<sessions, created, ncalls, pc, op, ownSession, sid, url, rawRegion,
                   resolvedRegion, endRegion, rr, pending, result, effects, wire, value>>

\* const session = await api.startSession(config), outside the try block;
\* session.sessionId of a response without data throws there as well.
WorkflowStart ==
    /\ wf.pc = "start"
    /\ \E reply \in WorkflowReplies, id \in WorkflowIds :
          LET w == Sent(wf, "startSession", None, None)
          IN wf' = IF reply = "payload"
                   THEN [w EXCEPT !.session = id, !.pc = "navigate"]
                   ELSE [w EXCEPT !.pc = "done", !.outcome = "thrown",
                                  !.thrown = [at |-> IF reply = "thrown" THEN "start"
                                                     ELSE "deref",
                                              step |-> 0]]
    /\ UNCHANGED <<sessions, created, ncalls, pc, op, ownSession, sid, url, rawRegion,
                   resolvedRegion, endRegion, rr, pending, result, effects, wire, value>>

\* The position after the step at index i: the next step, or the end of the loop.
AfterStep(w, i) == IF i >= Len(w.steps) THEN "end" ELSE "step"

\* await api.navigate(session.sessionId, args.url, ...): its value is not used.
WorkflowNavigate ==
    /\ wf.pc = "navigate"
    /\ \E reply \in WorkflowReplies :
          LET w == Sent(wf, "navigate", wf.session, wf.url)
          IN wf' = IF reply = "thrown"
                   THEN [w EXCEPT !.caught = [at |-> "navigate", step |-> 0],
                                  !.pc = "endCatch"]
                   ELSE [w EXCEPT !.next = 1, !.pc = AfterStep(w, 0)]
    /\ UNCHANGED <<sessions, created, ncalls, pc, op, ownSession, sid, url, rawRegion,
                   resolvedRegion, endRegion, rr, pending, result, effects, wire, value>>

\* The entry a step pushes: a navigate step reports its url, the other steps
\* what the service returned.
ResultOf(st, reply) ==
    IF st.type = "navigate"
    THEN [type |-> "navigate", url |-> st.text, data |-> None]
    ELSE [type |-> st.type, url |-> None, data |-> reply]

\* The step throws: the call failed, or actResult.result (extractResult,
\* observeResult) is read from a response without data.
StepThrows(st, reply) == reply = "thrown" \/ (st.type # "navigate" /\ reply = None)

\* A loop whose body swallows the error of a step and goes on.
OnStepFailure_Continue(w, failure) == [w EXCEPT !.next = @ + 1, !.pc = AfterStep(w, w.next)]

\* An error thrown in the loop leaves the loop for the catch block.
OnStepFailure(w, failure) == [w EXCEPT !.caught = failure, !.pc = "endCatch"]

\* One pass of `for (const step of args.steps)`: the request of the step,
\* then results.push(result).
WorkflowStep ==
    /\ wf.pc = "step"
    /\ \E reply \in WorkflowReplies :
          LET st == wf.steps[wf.next]
              w == Sent(wf, st.type, wf.session, st.text)
          IN wf' = IF StepThrows(st, reply)
                   THEN OnStepFailure(w, [at |-> IF reply = "thrown" THEN "step" ELSE "deref",
                                          step |-> wf.next])
                   ELSE [w EXCEPT !.results = Append(@, ResultOf(st, reply)),
                                  !.next = @ + 1,
                                  !.pc = AfterStep(w, w.next)]
    /\ UNCHANGED <<sessions, created, ncalls, pc, op, ownSession, sid, url, rawRegion,
                   resolvedRegion, endRegion, rr, pending, result, effects, wire, value>>

\* await api.endSession(...) after the loop, still inside the try block, and
\* the return of {results, finalResult}.
WorkflowEnd ==
    /\ wf.pc = "end"
    /\ \E reply \in WorkflowReplies :
          LET w == Sent(wf, "endSession", wf.session, None)
          IN wf' = IF reply = "thrown"
                   THEN [w EXCEPT !.caught = [at |-> "end", step |-> 0], !.pc = "endCatch"]
                   ELSE [w EXCEPT !.pc = "done", !.outcome = "returned",
                                  !.finalResult = IF Len(w.results) > 0
                                                  THEN w.results[Len(w.results)]
                                                  ELSE NoStepResult]
    /\ UNCHANGED <<sessions, created, ncalls, pc, op, ownSession, sid, url, rawRegion,
                   resolvedRegion, endRegion, rr, pending, result, effects, wire, value>>

\* catch (error) { await api.endSession(...); throw error }: an end request
\* that fails here replaces the error that was caught.
WorkflowEndCatch ==
    /\ wf.pc = "endCatch"
    /\ \E reply \in WorkflowReplies :
          LET w == Sent(wf, "endSession", wf.session, None)
          IN wf' = [w EXCEPT !.pc = "done", !.outcome = "thrown",
                             !.thrown = IF reply = "thrown"
                                        THEN [at |-> "endCatch", step |-> 0]
                                        ELSE w.caught]
    /\ UNCHANGED <<sessions, created, ncalls, pc, op, ownSession, sid, url, rawRegion,
                   resolvedRegion, endRegion, rr, pending, result, effects, wire, value>>

\* The caller takes the outcome of the workflow.
WorkflowReturn ==
    /\ wf.pc = "done"
    /\ wf' = NoWorkflow
    /\ UNCHANGED <<sessions, created, ncalls, pc, op, ownSession, sid, url, rawRegion,
                   resolvedRegion, endRegion, rr, pending, result, effects, wire, value>>

(* --------------------------- specifications --------------------------- *)
\* What the callers pass and what the service answers.
\* operations: the kinds of operation called; rawRegions: the regions declared
\* when a call creates a session; hints: the regions declared along with a
\* supplied session id; responses: what the service answers; maxCalls: the
\* number of public calls; script: the sequence of calls, <<>> for any; urls:
\* the pages the callers ask for; truthful: the service answers session-scoped
\* requests by the region the session lives in.
AnyEnv ==
    [operations |-> Operations, rawRegions |-> RawRegions \cup {InheritedKey},
     hints |-> RawRegions,
     responses |-> Responses, maxCalls |-> MaxCalls, script |-> <<>>, urls |-> Urls,
     truthful |-> FALSE]

\* A narrower environment for concurrent callers: one operation kind, a
\* declared region or none, and a service that answers with success, with a
\* region mismatch, or not at all.
NarrowEnv ==
    [operations |-> {"extract"},
     rawRegions |-> {None, "us-east-1"},
     hints |-> {None, "us-east-1"},
     maxCalls |-> MaxCalls,
     script |-> <<>>,
     urls |-> Urls,
     truthful |-> FALSE,
     responses |->
        {r \in Responses :
            \/ r.transport
            \/ r.ok /\ r.success = "true" /\ r.phrase = None
            \/ ~r.ok /\ r.phrase \in {"us-east-1", "us-west-2"}}]

NextIn(E) ==
    \/ \E p \in DOMAIN pc : CallStartSession(p, E)
    \/ \E p \in DOMAIN pc : CallEndSession(p, E)
    \/ \E p \in DOMAIN pc : CallOperation(p, E)
    \/ \E p \in DOMAIN pc : RemoteStart(p, E)
    \/ \E p \in DOMAIN pc : PersistStart(p)
    \/ \E p \in DOMAIN pc : Resolve(p)
    \/ \E p \in DOMAIN pc : Attempt1(p, E)
    \/ \E p \in DOMAIN pc : PersistRegion(p)
    \/ \E p \in DOMAIN pc : Attempt2(p, E)
    \/ \E p \in DOMAIN pc : Continue(p)
    \/ \E p \in DOMAIN pc : EndResolve(p)
    \/ \E p \in DOMAIN pc : EndPersist(p)
    \/ \E p \in DOMAIN pc : Return(p)

Next == NextIn(AnyEnv)

\* The steps of calls in which runWithRegionRetry never reaches its retry.
NextWithoutRetry(E) ==
    \/ \E p \in DOMAIN pc : CallStartSession(p, E)
    \/ \E p \in DOMAIN pc : CallEndSession(p, E)
    \/ \E p \in DOMAIN pc : CallOperation(p, E)
    \/ \E p \in DOMAIN pc : RemoteStart(p, E)
    \/ \E p \in DOMAIN pc : PersistStart(p)
    \/ \E p \in DOMAIN pc : Resolve(p)
    \/ \E p \in DOMAIN pc : Attempt1(p, E)
    \/ \E p \in DOMAIN pc : Continue(p)
    \/ \E p \in DOMAIN pc : EndResolve(p)
    \/ \E p \in DOMAIN pc : EndPersist(p)
    \/ \E p \in DOMAIN pc : Return(p)

\* The round trip: start a session, extract once on it, end it.
RoundTrip == <<"startSession", "extract", "endSession">>

\* The responses that make a wire-client call return.
Succeeds == {r \in Responses : handleResponse(r, None, 0) = NoError}

\* The round trip against a service whose every answer is a success.
RoundTripEnv ==
    [operations |-> {"extract"}, rawRegions |-> RawRegions, hints |-> RawRegions,
     responses |-> Succeeds, maxCalls |-> Len(RoundTrip), script |-> RoundTrip,
     urls |-> Urls \cup {"https://example.org"}, truthful |-> FALSE]

NextRoundTrip == NextWithoutRetry(RoundTripEnv)

\* The responses that name no known region.
NamesNoRegion == {r \in Responses : ~isBrowserbaseRegion(r.phrase)}

\* Callers that declare no region when a call creates a session, and a
\* service that never reports a region mismatch; hints are arbitrary.
QuietEnv ==
    [operations |-> Operations, rawRegions |-> {None}, hints |-> RawRegions,
     responses |-> NamesNoRegion, maxCalls |-> MaxCalls, script |-> <<>>,
     urls |-> Urls, truthful |-> FALSE]

NextQuiet == NextWithoutRetry(QuietEnv)

\* Any callers; a service that answers session-scoped requests truthfully
\* and session starts in any way.
TruthfulEnv == [AnyEnv EXCEPT !.truthful = TRUE]

NextTruthful == NextIn(TruthfulEnv)

NextConcurrent == NextIn(NarrowEnv)

\* One caller, any arguments, any responses.
Spec == Init /\ [][Next]_vars

\* Concurrent callers in the narrow environment.
SpecConcurrent == InitConcurrent /\ [][NextConcurrent]_vars

\* One caller making the round trip, every remote call succeeding.
SpecRoundTrip == Init /\ [][NextRoundTrip]_vars

\* One caller, sessions created without a declared region, no mismatch reported.
SpecQuiet == Init /\ [][NextQuiet]_vars

\* The wire-client functions invoked one after the other, any response.
NextWire == WireFetch \/ WireSettle \/ WireReturn

SpecWire == InitLeftBehind /\ [][NextWire]_vars

\* Upserts applied one after the other to a table left behind.
NextStore == StoreUpsert

SpecStore == InitLeftBehind /\ [][NextStore]_vars

\* One caller, any arguments, a truthful service, a table left behind.
SpecTruthful == InitLeftBehind /\ [][NextTruthful]_vars

\* The workflow action of the earlier lib, called again and again.
NextWorkflow ==
    \/ WorkflowCall
    \/ WorkflowStart
    \/ WorkflowNavigate
    \/ WorkflowStep
    \/ WorkflowEnd
    \/ WorkflowEndCatch
    \/ WorkflowReturn

SpecWorkflow == Init /\ [][NextWorkflow]_vars

\* The steps of a call that is under way: each is one remote call or one
\* store call returning or failing, followed by the handler's own code.
Progress(p, E) ==
    \/ RemoteStart(p, E)
    \/ PersistStart(p)
    \/ Resolve(p)
    \/ Attempt1(p, E)
    \/ PersistRegion(p)
    \/ Attempt2(p, E)
    \/ Continue(p)
    \/ EndResolve(p)
    \/ EndPersist(p)

\* Every remote call and every store call eventually returns or fails: a
\* step of a call under way is not put off for ever.  Callers are not
\* obliged to begin calls.
Fairness == \A p \in {1} : WF_vars(Progress(p, NarrowEnv))

NextLive == NextIn(NarrowEnv)

\* One caller and a service that answers with success, with a region
\* mismatch or not at all, every pending call eventually settling.
SpecLive == Init /\ [][NextLive]_vars /\ Fairness

(* ------------------------------ properties ----------------------------- *)
HasRow(tbl, sessionId) == RowsOf(tbl, sessionId) # {}

Row(tbl, sessionId) == tbl[FirstRow(tbl, sessionId)]

\* The runWithRegionRetry call of p has returned or thrown.
Settled(p) == rr[p].outcome \in {"returned", "thrown"}

\* The first invocation of p's runWithRegionRetry call failed with an error
\* that names a known region other than the one it was invoked with.
Mismatch(p) ==
    /\ Len(rr[p].errors) >= 1
    /\ rr[p].errors[1].phrase \in BrowserbaseRegion
    /\ rr[p].errors[1].phrase # rr[p].attempts[1]

\* C1: when the first invocation of the wrapped operation fails with an error
\* that embeds a known region R2 other than the region R1 it was given, the
\* operation is invoked exactly once more, with R2: while the call is open the
\* retry is the next thing to happen, and once it has settled there were two
\* invocations, the second given R2.
C1_RetryOnceWithParsedRegion ==
    \A p \in DOMAIN pc :
        Mismatch(p) =>
            /\ rr[p].attempts[1] = rr[p].initialRegion
            /\ IF Settled(p)
               THEN /\ Len(rr[p].attempts) = 2
                    /\ rr[p].attempts[2] = rr[p].errors[1].phrase
               ELSE /\ pc[p] \in {"persistRegion", "attempt2"}
                    /\ Len(rr[p].attempts) = 1

C1_Witness ==
    \E p \in DOMAIN pc :
        /\ pc[p] = "rrDone"
        /\ Mismatch(p)
        /\ Len(rr[p].attempts) = 2
        /\ rr[p].attempts[1] \in BrowserbaseRegion

\* C2: when the retry is about to be issued, the session's record exists and
\* holds the parsed region, written by this call, and the onRegionResolved
\* hook has set the call site's resolved region to it.
C2_WriteAndHookBeforeRetry ==
    \A p \in DOMAIN pc :
        pc[p] = "attempt2" =>
            LET parsedRegion == rr[p].errors[1].phrase
            IN /\ HasRow(sessions, sid[p])
               /\ Row(sessions, sid[p]).region = parsedRegion
               /\ rr[p].wrote = parsedRegion
               /\ IF rr[p].step = "end"
                  THEN endRegion[p] = parsedRegion
                  ELSE resolvedRegion[p] = parsedRegion

C2_Witness ==
    \E p \in DOMAIN pc :
        /\ pc[p] = "attempt2"
        /\ Len(rr[p].attempts) = 1
        /\ Row(sessions, sid[p]).region = rr[p].errors[1].phrase
        /\ rr[p].initialRegion # rr[p].errors[1].phrase

\* C3: the wrapped operation is never invoked more than twice; when the second
\* invocation fails the call is over and throws the second invocation's error,
\* whatever region that error names.
C3_SecondFailureIsFinal ==
    \A p \in DOMAIN pc :
        /\ Len(rr[p].attempts) <= 2
        /\ Len(rr[p].errors) = 2 =>
              /\ pc[p] = "rrDone"
              /\ Len(rr[p].attempts) = 2
              /\ rr[p].outcome = "thrown"
              /\ rr[p].thrown = ErrorId(rr[p].errors[2])
              /\ rr[p].thrown.att = 2

C3_Witness ==
    \E p \in DOMAIN pc :
        /\ pc[p] = "rrDone"
        /\ Len(rr[p].errors) = 2
        /\ rr[p].errors[2].phrase \in BrowserbaseRegion
        /\ rr[p].errors[2].phrase \notin {rr[p].attempts[1], rr[p].attempts[2]}

C5_UnparseableNoRetry ==
    \A p \in DOMAIN pc :
        /\ (Len(rr[p].errors) >= 1 /\ rr[p].errors[1].phrase \notin BrowserbaseRegion) =>
              /\ Len(rr[p].attempts) = 1
              /\ Len(rr[p].errors) = 1
              /\ rr[p].outcome = "thrown"
              /\ rr[p].thrown = ErrorId(rr[p].errors[1])
              /\ pc[p] \notin {"persistRegion", "attempt2"}
        /\ rr[p].outcome = "returned" => Len(rr[p].errors) = Len(rr[p].attempts) - 1

C5_Witness ==
    \E p \in DOMAIN pc :
        /\ pc[p] = "rrDone"
        /\ Len(rr[p].errors) = 1
        /\ rr[p].errors[1].kind = "http"
        /\ rr[p].errors[1].phrase = GarbledRegion
        /\ rr[p].outcome = "thrown"

\* The step in which p leaves position at.
Leaves(p, at) == pc[p] = at /\ pc'[p] # at

\* C6: an endSession call whose remote end request failed (on its only attempt,
\* or on the attempt and on the retry) goes on to the write of its catch block
\* and then returns success = false, leaving the session's record with status
\* error and a non-empty error message.  No endSession call ever throws.
C6_EndSessionFailureReturnsFalse ==
    [][\A p \in DOMAIN pc :
          op[p] = "endSession" =>
             /\ (Leaves(p, "rrDone") /\ rr[p].outcome = "thrown") =>
                   pc'[p] = "persistError"
             /\ Leaves(p, "persistError") =>
                   /\ pc'[p] = "done"
                   /\ result'[p].kind = "returned"
                   /\ result'[p].success = FALSE
                   /\ HasRow(sessions', sid[p])
                   /\ Row(sessions', sid[p]).status = "error"
                   /\ Row(sessions', sid[p]).error \notin {None, ""}
             /\ pc'[p] = "done" => result'[p].kind = "returned"]_vars

\* An endSession call, the first call there is, on a session routed to the
\* default region, has failed after a retry against another region.
C6_Witness ==
    \E p \in DOMAIN pc :
        /\ pc[p] = "done"
        /\ op[p] = "endSession"
        /\ ncalls = 1
        /\ endRegion[p] # DEFAULT_BROWSERBASE_REGION
        /\ result[p].kind = "returned"
        /\ result[p].success = FALSE
        /\ Row(sessions, sid[p]).status = "error"

\* C7: an endSession call whose remote end request succeeded, on the first
\* attempt or on the retry, goes on to the write of its try block and then
\* returns success = true, leaving the session's record with status completed
\* and an endedAt timestamp.
C7_EndSessionSuccessCompletes ==
    [][\A p \in DOMAIN pc :
          op[p] = "endSession" =>
             /\ (Leaves(p, "rrDone") /\ rr[p].outcome = "returned") =>
                   pc'[p] = "persistCompleted"
             /\ Leaves(p, "persistCompleted") =>
                   /\ pc'[p] = "done"
                   /\ result'[p].kind = "returned"
                   /\ result'[p].success = TRUE
                   /\ HasRow(sessions', sid[p])
                   /\ Row(sessions', sid[p]).status = "completed"
                   /\ Row(sessions', sid[p]).endedAt > 0]_vars

\* An endSession call, the first call there is, has succeeded on its retry.
C7_Witness ==
    \E p \in DOMAIN pc :
        /\ pc[p] = "done"
        /\ op[p] = "endSession"
        /\ ncalls = 1
        /\ endRegion[p] # DEFAULT_BROWSERBASE_REGION
        /\ result[p].success = TRUE
        /\ Row(sessions, sid[p]).status = "completed"
        /\ Row(sessions, sid[p]).endedAt > 0

StoredIds(tbl) == {tbl[i].sessionId : i \in 1..Len(tbl)}

\* C8: the status of a session's record only ever changes from active to
\* completed or from active to error; a completed or error record keeps its
\* status.
C8_StatusOnlyMovesForward ==
    [][\A s \in StoredIds(sessions) :
          \/ Row(sessions', s).status = Row(sessions, s).status
          \/ /\ Row(sessions, s).status = "active"
             /\ Row(sessions', s).status \in {"completed", "error"}]_vars

\* C9: under concurrent callers the table never holds two rows with the same
\* sessionId, and a session that has a row keeps it.
C9_OneRowPerSessionNeverRemoved ==
    [][/\ \A i, j \in 1..Len(sessions') :
             sessions'[i].sessionId = sessions'[j].sessionId => i = j
       /\ \A s \in StoredIds(sessions) : HasRow(sessions', s)
       /\ Len(sessions') >= Len(sessions)]_vars

C9_Witness ==
    \E p, q \in DOMAIN pc :
        /\ p # q
        /\ sid[p] = sid[q]
        /\ sid[p] # None
        /\ rr[p].wrote # None
        /\ rr[q].wrote # None
        /\ Cardinality(RowsOf(sessions, sid[p])) = 1

\* C10: a record that comes into existence has status active.
C10_NewRecordIsActive ==
    [][\A s \in StoredIds(sessions') :
          ~HasRow(sessions, s) => Row(sessions', s).status = "active"]_vars

\* C11: when extract, act, observe or agent created its own session and its
\* navigate or operation step failed, the call does not finish before an
\* end-session request for that session was sent, and what the caller gets is
\* the error the handler caught from the failing step, never the error of the
\* end-session step.
C11_OwnSessionEndedOriginalErrorKept ==
    \A p \in DOMAIN pc :
        (op[p] \in Operations /\ ownSession[p]) =>
            /\ pending[p] # NoErrorId => pending[p].step \in {"navigate", "operate", "return"}
            /\ pc[p] = "done" =>
                  /\ result[p].error.step # "end"
                  /\ pending[p] # NoErrorId =>
                        /\ result[p].kind = "thrown"
                        /\ result[p].error = pending[p]
                  /\ (result[p].kind = "thrown"
                        /\ result[p].error.step \in {"navigate", "operate"}) =>
                        /\ pending[p] = result[p].error
                        /\ effects[p].end >= 1

\* An extract that created its session has failed in its operation step, and
\* the end-session step failed as well, after a retry.
C11_Witness ==
    \E p \in DOMAIN pc :
        /\ op[p] = "extract"
        /\ ownSession[p]
        /\ pc[p] = "done"
        /\ result[p].kind = "thrown"
        /\ result[p].error.step = "operate"
        /\ effects[p].end = 2
        /\ Row(sessions, sid[p]).status = "error"

\* C12: extract, act, observe and agent called with a caller-supplied
\* sessionId never send an end-session request and never enter
\* endSessionWithRouting, whether the operation succeeds or fails.
C12_SuppliedSessionNeverEnded ==
    \A p \in DOMAIN pc :
        (op[p] \in Operations /\ sid[p] # None /\ ~ownSession[p]) =>
            /\ effects[p].end = 0
            /\ rr[p].step # "end"
            /\ pc[p] \notin {"endResolve", "persistCompleted", "persistError"}

\* An agent call on a caller-supplied session has failed after a retry.
C12_Witness ==
    \E p \in DOMAIN pc :
        /\ op[p] = "agent"
        /\ ~ownSession[p]
        /\ sid[p] = ForeignSessionId
        /\ pc[p] = "done"
        /\ result[p].kind = "thrown"
        /\ effects[p].operate = 2

\* C13: extract, act, observe and agent called with neither a sessionId nor a
\* url fail at once with the precondition error: no request was sent and the
\* sessions table was neither read nor written by the call.
C13_MissingTargetFailsAtOnce ==
    \A p \in DOMAIN pc :
        (op[p] \in Operations /\ sid[p] = None /\ url[p] = None) =>
            /\ pc[p] = "done"
            /\ result[p].kind = "thrown"
            /\ result[p].error = [step |-> "precondition", att |-> 0]
            /\ effects[p] = NoEffects

\* An observe call without sessionId and url has failed; the table, written
\* by an earlier call, is as that call left it.
C13_Witness ==
    \E p \in DOMAIN pc :
        /\ op[p] = "observe"
        /\ sid[p] = None
        /\ url[p] = None
        /\ pc[p] = "done"
        /\ result[p].error.step = "precondition"
        /\ Len(sessions) = 1

\* C14: on the round trip startSession, extract on the returned id,
\* endSession, every remote call succeeding, the table holds no row before the
\* start has written and exactly one row, for the returned id, from then on;
\* its status is active until endSession has written, completed afterwards,
\* and so never error.
C14_RoundTripOneRecord ==
    LET created1 == created >= 1
                    /\ \A p \in DOMAIN pc : op[p] = "startSession" => effects[p].writes >= 1
        ended == ncalls = Len(RoundTrip) /\ \A p \in DOMAIN pc : pc[p] \in {"done", "idle"}
    IN /\ Len(sessions) = (IF created1 THEN 1 ELSE 0)
       /\ \A i \in 1..Len(sessions) :
             /\ sessions[i].sessionId = SessionIdOf(1)
             /\ sessions[i].status = (IF ended THEN "completed" ELSE "active")
             /\ sessions[i].error = None

\* The third call of the round trip, endSession, has returned success.
C14_Witness ==
    \E p \in DOMAIN pc :
        /\ ncalls = Len(RoundTrip)
        /\ op[p] = "endSession"
        /\ pc[p] = "done"
        /\ result[p].success
        /\ sid[p] = SessionIdOf(1)
        /\ Row(sessions, sid[p]).status = "completed"
        /\ Row(sessions, sid[p]).endedAt > 0

\* The session ids the service has issued to start requests of this component.
IssuedIds == {SessionIdOf(n) : n \in 1..created}

\* C15: when sessions are started without a declared region and the service
\* reports no region mismatch, the first attempt of every step of a later
\* extract, act, observe, agent or endSession call on such a session is sent
\* to the host of the default region, whatever region the call declares.
C15_UndeclaredRegionRoutesToDefault ==
    \A p \in DOMAIN pc :
        (/\ op[p] \in Operations \cup {"endSession"}
         /\ ~ownSession[p]
         /\ sid[p] \in IssuedIds
         /\ rr[p].step # None) =>
            /\ getApiBase(rr[p].initialRegion) = getApiBase(DEFAULT_BROWSERBASE_REGION)
            /\ \A i \in 1..Len(rr[p].attempts) :
                  getApiBase(rr[p].attempts[i]) = REGION_API_URLS["us-west-2"] \o "/v1"

\* An act call on a session started earlier has sent its request.
C15_Witness ==
    \E p \in DOMAIN pc :
        /\ op[p] = "act"
        /\ ~ownSession[p]
        /\ sid[p] = SessionIdOf(1)
        /\ Row(sessions, sid[p]).status = "active"
        /\ pc[p] = "rrDone"
        /\ rr[p].attempts = <<DEFAULT_BROWSERBASE_REGION>>

\* C16: the region a call starts with.  With a supplied session id the
\* resolution step always goes on to the first attempt, whose request is sent to
\* the host of the stored region if the table has a row for the session,
\* otherwise of the declared region if it is a known one, otherwise of the
\* default region (endSession has no declared region).  A call that creates
\* its session starts with the declared region if it is a known one, otherwise
\* with the default region.  The first attempt of a step is given the region
\* the step started with.
C16_FirstRegionResolution ==
    [][\A p \in DOMAIN pc :
          LET hint == IF op[p] = "endSession" THEN None ELSE resolvedRegion[p]
              expected == IF HasRow(sessions, sid[p]) THEN Row(sessions, sid[p]).region
                          ELSE IF hint # None THEN hint
                          ELSE DEFAULT_BROWSERBASE_REGION
          IN /\ (Leaves(p, "resolve") \/ (Leaves(p, "endResolve") /\ op[p] = "endSession")) =>
                   /\ pc'[p] = "attempt1"
                   /\ rr'[p].attempts = <<>>
                   /\ getApiBase(rr'[p].initialRegion) = getApiBase(expected)
             /\ (pc[p] = "idle" /\ pc'[p] = "start") =>
                   resolvedRegion'[p] = (IF rawRegion'[p] \in BrowserbaseRegion
                                         THEN rawRegion'[p]
                                         ELSE DEFAULT_BROWSERBASE_REGION)
             /\ Leaves(p, "start") => resolvedRegion'[p] = resolvedRegion[p]
             /\ Leaves(p, "persistStart") =>
                   /\ pc'[p] = "attempt1"
                   /\ rr'[p].attempts = <<>>
                   /\ rr'[p].initialRegion = resolvedRegion[p]
             /\ Leaves(p, "attempt1") => rr'[p].attempts = <<rr[p].initialRegion>>]_vars

\* An operation on a supplied session without a row has sent its first
\* request to the region its caller declared.
C16_Witness ==
    \E p \in DOMAIN pc :
        /\ op[p] = "observe"
        /\ ~ownSession[p]
        /\ sid[p] = ForeignSessionId
        /\ ~HasRow(sessions, sid[p])
        /\ pc[p] = "rrDone"
        /\ rr[p].attempts = <<"eu-central-1">>

\* C17: against a service that accepts a session-scoped request at the host
\* of the session's region and rejects it elsewhere with an error naming that
\* region, whatever the table holds for the session and whatever region the
\* caller declares: a remote step takes at most two attempts and returns, its
\* last request having gone to the session's region; once a retry was needed
\* the table holds the session's region; and no call fails in a
\* session-scoped step (a call can still fail before it has a session, or
\* when the accepted operation request is answered without data).
C17_StaleRegionRecovered ==
    \A p \in DOMAIN pc :
        /\ rr[p].step # None =>
              /\ Len(rr[p].attempts) <= 2
              /\ rr[p].outcome # "thrown"
              /\ Settled(p) =>
                    /\ Len(rr[p].attempts) >= 1
                    /\ getApiBase(rr[p].attempts[Len(rr[p].attempts)])
                          = getApiBase(TrueRegion(sid[p]))
              /\ Len(rr[p].attempts) = 2 =>
                    /\ HasRow(sessions, sid[p])
                    /\ Row(sessions, sid[p]).region = TrueRegion(sid[p])
        /\ (pc[p] = "done" /\ effects[p].hooks # <<>>) =>
              /\ HasRow(sessions, sid[p])
              /\ Row(sessions, sid[p]).region = TrueRegion(sid[p])
        /\ (pc[p] = "done" /\ result[p].kind = "thrown") =>
              result[p].error.step \in {"precondition", "start", "return"}

\* An act call on a session whose row held another region than the one the
\* session lives in has returned after its retry.
C17_Witness ==
    \E p \in DOMAIN pc :
        /\ op[p] = "act"
        /\ ~ownSession[p]
        /\ sid[p] = ForeignSessionId
        /\ ncalls = 1
        /\ pc[p] = "rrDone"
        /\ rr[p].attempts = <<"eu-central-1", "us-east-1">>
        /\ rr[p].outcome = "returned"
        /\ Row(sessions, sid[p]).region = "us-east-1"

\* The regions the hooks of p's call were given before its current step began.
PriorHooks(p) ==
    IF rr[p].wrote # None
    THEN SubSeq(effects[p].hooks, 1, Len(effects[p].hooks) - 1)
    ELSE effects[p].hooks

\* C18 as stated: within an operation that created its session, the first
\* attempt of a step is sent to every region an earlier step of the operation
\* was corrected to.
C18_LaterStepsUseEveryCorrection ==
    \A p \in DOMAIN pc :
        (op[p] \in Operations /\ ownSession[p] /\ rr[p].step \in {"operate", "end"}) =>
            \A k \in 1..Len(PriorHooks(p)) :
                /\ rr[p].initialRegion = PriorHooks(p)[k]
                /\ \A i \in 1..Len(rr[p].attempts) :
                      i = 1 => rr[p].attempts[i] = PriorHooks(p)[k]

\* C18, amended: within an operation that created its session, and with no
\* other call writing the session's row meanwhile, the first attempt of a step
\* (the operation itself, the end-session step) is sent to the region of the
\* most recent correction made by an earlier step of the operation.
C18_LaterStepsUseLatestCorrection ==
    \A p \in DOMAIN pc :
        (op[p] \in Operations /\ ownSession[p] /\ rr[p].step \in {"operate", "end"}
            /\ PriorHooks(p) # <<>>) =>
            LET latest == PriorHooks(p)[Len(PriorHooks(p))]
            IN /\ rr[p].initialRegion = latest
               /\ \A i \in 1..Len(rr[p].attempts) : i = 1 => rr[p].attempts[i] = latest

\* An extract that created its session was corrected in its navigate step
\* and again in its operation step, and has sent its end-session request.
C18_Witness ==
    \E p \in DOMAIN pc :
        /\ op[p] = "extract"
        /\ ownSession[p]
        /\ rr[p].step = "end"
        /\ effects[p].hooks = <<"us-east-1", "eu-central-1">>
        /\ rr[p].attempts = <<"eu-central-1">>

\* C19: in one public call the session-start request is sent at most once and
\* the navigate, operation and end-session requests at most twice each; a
\* runWithRegionRetry call makes at most two attempts.
C19_NoThirdAttempt ==
    \A p \in DOMAIN pc :
        /\ effects[p].start <= 1
        /\ effects[p].navigate <= 2
        /\ effects[p].operate <= 2
        /\ effects[p].end <= 2
        /\ Len(rr[p].attempts) <= 2

\* A call that created its session has finished after sending every one of
\* its session-scoped requests twice.
C19_Witness ==
    \E p \in DOMAIN pc :
        /\ pc[p] = "done"
        /\ effects[p].start = 1
        /\ effects[p].navigate = 2
        /\ effects[p].operate = 2
        /\ effects[p].end = 2

\* C20: an invocation of a wire-client function sends exactly one POST; it
\* throws exactly when fetch rejected, the status is not 2xx or the success
\* field of the body is not true; otherwise it returns the data field of the
\* body; the sessions table is as it was.
C20_OnePostStrictSuccessReturnsData ==
    /\ wire.state # "idle" => wire.posts = 1
    /\ wire.state \in {"returned", "thrown"} =>
          /\ wire.state = "thrown" <=>
                \/ wire.response.transport
                \/ ~wire.response.ok
                \/ wire.response.success # "true"
          /\ wire.state = "returned" => wire.value = wire.response.data
    /\ sessions \in LeftBehind

\* C21: every protocol failure, a status that is not 2xx or a 2xx body whose
\* success field is false, is thrown as an error whose message carries the
\* status and the body text, so a region named in the body is what
\* extractRegionFromError finds in the error.
C21_ProtocolFailureCarriesStatusAndBody ==
    wire.state = "thrown" /\ ~wire.response.transport =>
        /\ wire.error.kind = "http"
        /\ wire.error.phrase = wire.response.phrase
        /\ extractRegionFromError(wire.error) = getRequestedRegion(wire.response.phrase)

\* C22: a request for one of the four known regions goes to that region's own
\* base url: the url of the table followed by /v1, which is the base url of
\* no other known region.
C22_KnownRegionsHaveDistinctBases ==
    wire.state # "idle" /\ isBrowserbaseRegion(wire.region) =>
        /\ wire.base = REGION_API_URLS[wire.region] \o "/v1"
        /\ \A other \in BrowserbaseRegion \ {wire.region} :
              /\ wire.base # getApiBase(other)
              /\ REGION_API_URLS[wire.region] # REGION_API_URLS[other]

C22_Witness ==
    /\ wire.state = "sent"
    /\ wire.region = "ap-southeast-1"
    /\ wire.base = "https://api.apse1.stagehand.browserbase.com/v1"

\* C23: a request whose region is absent or is not one of the four known
\* regions goes to the base url of the default region, and getApiBase does
\* not raise.
C23_UnknownRegionFallsBackToDefault ==
    wire.state # "idle" /\ ~isBrowserbaseRegion(wire.region) =>
        wire.base = REGION_API_URLS[DEFAULT_BROWSERBASE_REGION] \o "/v1"

\* The key paths of a body that have a member named region.
RegionKeys(body) ==
    {key \in DOMAIN body : \E i \in 1..Len(key) : key[i] = "region"}

\* C24: the body of every navigate, operation and end request, first attempt
\* or retry, has no key named region and no value that is the region the
\* attempt is routed to; the region selects the base url.  Of the start
\* request only browserbaseSessionCreateParams.region may name a region.
C24_RegionOnlySelectsHost ==
    \A p \in DOMAIN pc :
        /\ \A n \in 1..Len(rr[p].attempts), options \in BOOLEAN :
              LET request == RequestOf(p, n, options)
              IN /\ RegionKeys(request.body) = {}
                 /\ \A key \in DOMAIN request.body :
                       request.body[key] # rr[p].attempts[n]
                 /\ request.base = getApiBase(rr[p].attempts[n])
        /\ pc[p] = "start" =>
              RegionKeys(StartRequestOf(p).body)
                  \subseteq {<<"browserbaseSessionCreateParams", "region">>}

C24_Witness ==
    \E p \in DOMAIN pc :
        /\ rr[p].step = "operate"
        /\ Len(rr[p].attempts) = 2
        /\ rr[p].attempts[1] # rr[p].attempts[2]
        /\ RequestOf(p, 1, TRUE).base # RequestOf(p, 2, TRUE).base
        /\ RequestOf(p, 1, TRUE).body = RequestOf(p, 2, TRUE).body

\* C29: every request of the operation step of an agent call, first attempt
\* or retry, is a POST to /sessions/{id}/agentExecute under the base url of
\* the region of the attempt, never to /sessions/{id}/agent/execute.
C29_AgentExecutePath ==
    \A p \in DOMAIN pc :
        op[p] = "agent" /\ rr[p].step = "operate" =>
            \A n \in 1..Len(rr[p].attempts), options \in BOOLEAN :
                LET request == RequestOf(p, n, options)
                IN /\ request.method = "POST"
                   /\ request.fn = "agentExecute"
                   /\ request.path = "/sessions/" \o sid[p] \o "/agentExecute"
                   /\ request.path # "/sessions/" \o sid[p] \o "/agent/execute"
                   /\ request.base = getApiBase(rr[p].attempts[n])

C29_Witness ==
    \E p \in DOMAIN pc :
        /\ op[p] = "agent"
        /\ rr[p].step = "operate"
        /\ Len(rr[p].attempts) = 2
        /\ RequestOf(p, 2, FALSE).path = "/sessions/ext/agentExecute"
        /\ RequestOf(p, 2, FALSE).base = "https://api.use1.stagehand.browserbase.com/v1"

\* C28: the body of every act request has the key input, whose value is the
\* action text the caller passed, and has no key named action.
C28_ActBodyUsesInput ==
    wire.state # "idle" /\ wire.fn = "act" =>
        /\ <<"input">> \in DOMAIN wire.body
        /\ wire.body[<<"input">>] = wire.args.text
        /\ \A key \in DOMAIN wire.body : \A i \in 1..Len(key) : key[i] # "action"

C28_Witness ==
    /\ wire.state = "sent"
    /\ wire.fn = "act"
    /\ wire.args.text = "action"
    /\ wire.args.options
    /\ DOMAIN wire.body = {<<"input">>, <<"options">>, <<"options", "model">>}

\* The fields of a patch and whether the patch supplies them.
PatchFields == {"region", "status", "operation", "url", "endedAt", "error"}

Supplies(args, field) == args[field] # (IF field = "endedAt" THEN 0 ELSE None)

\* C25: applying an upsert a second time, right after the first and with the
\* same arguments, leaves the table as the first application left it.
C25_UpsertTwiceIsUpsertOnce ==
    \A args \in Patches(now + 1) :
        LET once == upsertSessionMetadata(sessions, args, now + 1)
            twice == upsertSessionMetadata(once, args, now + 2)
        IN twice = once

\* A table on which an upsert does something: it patches a row of another
\* status, or inserts a row next to the one present.
C25_Witness ==
    /\ Len(sessions) = 1
    /\ sessions[1].status = "completed"
    /\ \E args \in Patches(now + 1) :
          /\ args.sessionId = sessions[1].sessionId
          /\ upsertSessionMetadata(sessions, args, now + 1) # sessions
    /\ \E args \in Patches(now + 1) :
          Len(upsertSessionMetadata(sessions, args, now + 1)) = 2

\* C26: an upsert for a session that has a row leaves the number of rows,
\* every other row, and in the row of the session every field the arguments
\* do not supply (startedAt, sessionId, and region, status, operation, url,
\* endedAt, error when absent) as they were, and sets each supplied field to
\* the supplied value.
C26_UpsertChangesOnlySuppliedFields ==
    \A args \in Patches(now + 1) :
        HasRow(sessions, args.sessionId) =>
            LET new == upsertSessionMetadata(sessions, args, now + 1)
                i == FirstRow(sessions, args.sessionId)
            IN /\ Len(new) = Len(sessions)
               /\ \A j \in 1..Len(sessions) : j # i => new[j] = sessions[j]
               /\ new[i].sessionId = sessions[i].sessionId
               /\ new[i].startedAt = sessions[i].startedAt
               /\ \A field \in PatchFields :
                     new[i][field] = IF Supplies(args, field) THEN args[field]
                                     ELSE sessions[i][field]

\* Two rows, one of them described by operation and url, on which a patch
\* of the other fields acts.
C26_Witness ==
    /\ Len(sessions) = 2
    /\ sessions[1].sessionId # sessions[2].sessionId
    /\ sessions[2].operation = "extract"
    /\ sessions[2].url = "https://example.com"
    /\ sessions[2].status = "active"
    /\ \E args \in Patches(now + 1) :
          /\ args.sessionId = sessions[2].sessionId
          /\ args.url = None
          /\ upsertSessionMetadata(sessions, args, now + 1) # sessions

\* C27: in an operation that creates its own session the remote steps are
\* taken in the order start, navigate, operation, end, one at a time:
\* navigate is sent only after the one start returned a session, the
\* operation only after navigate returned, nothing but end after end; a
\* failed start is followed by no request, a failed navigate by no operation
\* request.
C27_StartNavigateOperateEnd ==
    \A p \in DOMAIN pc :
        op[p] \in Operations /\ ownSession[p] =>
            LET did == effects[p]
            IN /\ did.start <= 1
               /\ did.navigate > 0 => did.start = 1 /\ sid[p] # None
               /\ did.operate > 0 => did.navigate > 0 /\ did.failed # "navigate"
               /\ did.end > 0 => did.navigate > 0
               /\ rr[p].step = "navigate" => did.operate = 0 /\ did.end = 0
               /\ rr[p].step = "operate" => did.end = 0
               /\ did.end > 0 => rr[p].step \in {"end", None}
               /\ did.failed = "start" =>
                     did.navigate = 0 /\ did.operate = 0 /\ did.end = 0
               /\ did.failed = "navigate" => did.operate = 0

C27_Witness ==
    \E p \in DOMAIN pc :
        /\ op[p] \in Operations /\ ownSession[p]
        /\ pc[p] = "done"
        /\ result[p].kind = "returned"
        /\ effects[p].start = 1
        /\ effects[p].navigate = 2
        /\ effects[p].operate = 1
        /\ effects[p].end = 1

\* C30: the two attempts of one runWithRegionRetry call go to different base
\* urls, also when the first attempt was made without a region and so went
\* to the base url of the default region.
C30_AttemptsGoToDifferentHosts ==
    \A p \in DOMAIN pc :
        Len(rr[p].attempts) = 2 =>
            getApiBase(rr[p].attempts[1]) # getApiBase(rr[p].attempts[2])

\* C31: an operation that created its own session has, when it finishes,
\* run the end-session procedure exactly once after the session was created:
\* on its success path or on its failure path, not on both and not on neither.
C31_EndProcedureRunsOnce ==
    \A p \in DOMAIN pc :
        (op[p] \in Operations /\ ownSession[p] /\ pc[p] = "done"
            /\ effects[p].failed # "start") =>
            effects[p].ends = 1

\* C32: a step taken inside runWithRegionRetry changes the sessions table,
\* the caller's resolved region or the list of hook calls only between a first
\* attempt that failed with a known region other than the one tried and the
\* retry; an attempt itself, succeeding or failing, leaves all of them as
\* they were.
C32_WritesOnlyBeforeRetry ==
    [][\A p \in DOMAIN pc :
          pc[p] \in {"attempt1", "persistRegion", "attempt2"} =>
              \/ /\ sessions' = sessions
                 /\ resolvedRegion'[p] = resolvedRegion[p]
                 /\ endRegion'[p] = endRegion[p]
                 /\ effects'[p].hooks = effects[p].hooks
                 /\ effects'[p].writes = effects[p].writes
              \/ /\ pc[p] = "persistRegion"
                 /\ pc'[p] = "attempt2"
                 /\ Len(rr[p].attempts) = 1
                 /\ Len(rr[p].errors) = 1
                 /\ isBrowserbaseRegion(extractRegionFromError(rr[p].errors[1]))
                 /\ extractRegionFromError(rr[p].errors[1]) # rr[p].initialRegion]_vars

\* An operation step on a supplied session failed once with an error naming
\* the region it was sent to; runWithRegionRetry has thrown without a write,
\* a hook call or a second attempt.
C32_Witness ==
    \E p \in DOMAIN pc :
        /\ pc[p] = "rrDone"
        /\ rr[p].step = "operate"
        /\ ~ownSession[p]
        /\ rr[p].outcome = "thrown"
        /\ rr[p].attempts = <<"us-east-1">>
        /\ extractRegionFromError(rr[p].errors[1]) = "us-east-1"
        /\ rr[p].wrote = None
        /\ effects[p].writes = 0
        /\ effects[p].hooks = <<>>
        /\ resolvedRegion[p] = "us-east-1"
        /\ sessions = <<>>

\* C33: a finished startSession has either returned the new session id, with
\* no end-session request sent and the session's record active, or thrown:
\* the error of the start request, with no session and no record made, or
\* the error of the navigate step (sent at most twice), after the end-session
\* procedure was run for the new session, whose record is then completed or
\* error and not active.
C33_StartReturnsOpenOrEndsAndRethrows ==
    \A p \in DOMAIN pc :
        (op[p] = "startSession" /\ pc[p] = "done") =>
            \/ /\ result[p].kind = "returned"
               /\ effects[p].failed = None
               /\ effects[p].navigate \in 1..2
               /\ effects[p].ends = 0
               /\ effects[p].end = 0
               /\ sid[p] = SessionIdOf(created)
               /\ HasRow(sessions, sid[p])
               /\ Row(sessions, sid[p]).status = "active"
            \/ /\ result[p].kind = "thrown"
               /\ effects[p].failed = "start"
               /\ result[p].error.step = "start"
               /\ sid[p] = None
               /\ effects[p].writes = 0
               /\ effects[p].navigate = 0
               /\ effects[p].end = 0
            \/ /\ result[p].kind = "thrown"
               /\ effects[p].failed = "navigate"
               /\ result[p].error.step = "navigate"
               /\ result[p].error = pending[p]
               /\ effects[p].navigate \in 1..2
               /\ effects[p].ends = 1
               /\ effects[p].end \in 1..2
               /\ sid[p] = SessionIdOf(created)
               /\ HasRow(sessions, sid[p])
               /\ Row(sessions, sid[p]).status \in {"completed", "error"}

\* A startSession whose navigate step failed after a region retry has ended
\* the new session and rethrown the error of the second navigate attempt.
C33_Witness ==
    \E p \in DOMAIN pc :
        /\ op[p] = "startSession"
        /\ pc[p] = "done"
        /\ result[p].kind = "thrown"
        /\ result[p].error = [step |-> "navigate", att |-> 2]
        /\ effects[p].navigate = 2
        /\ effects[p].end = 1
        /\ Row(sessions, sid[p]).status = "completed"

\* C34: when an operation that created its own session has finished, by
\* returning or by throwing, the record of that session has status completed
\* or error, not active.
C34_OwnSessionRecordTerminal ==
    \A p \in DOMAIN pc :
        (op[p] \in Operations /\ ownSession[p] /\ pc[p] = "done"
            /\ effects[p].failed # "start") =>
            /\ sid[p] = SessionIdOf(created)
            /\ Cardinality(RowsOf(sessions, sid[p])) = 1
            /\ Row(sessions, sid[p]).status \in {"completed", "error"}

\* An act that created its session has thrown the error of its operation
\* step; the end-session step, retried in another region, failed too and the
\* record is left with status error.
C34_Witness ==
    \E p \in DOMAIN pc :
        /\ op[p] = "act"
        /\ ownSession[p]
        /\ pc[p] = "done"
        /\ result[p].kind = "thrown"
        /\ result[p].error.step = "operate"
        /\ effects[p].end = 2
        /\ Row(sessions, sid[p]).status = "error"

\* C35: an extract, act, observe or agent call that created its own session
\* and whose operation step returned data returns to its caller, whether the
\* end-session step that followed succeeded or failed; the error of the
\* end-session step never reaches the caller.
C35_EndFailureDoesNotHideResult ==
    \A p \in DOMAIN pc :
        (op[p] \in Operations /\ ownSession[p] /\ pc[p] = "done"
            /\ value[p] = "payload") =>
            /\ result[p].kind = "returned"
            /\ result[p].success
            /\ result[p].error = NoErrorId
            /\ effects[p].ends = 1

\* An agent call that created its session got its data; the end-session
\* step then failed in two regions and the record says so, and the call has
\* returned.
C35_Witness ==
    \E p \in DOMAIN pc :
        /\ op[p] = "agent"
        /\ ownSession[p]
        /\ pc[p] = "done"
        /\ value[p] = "payload"
        /\ effects[p].end = 2
        /\ Row(sessions, sid[p]).status = "error"
        /\ Row(sessions, sid[p]).error = EndError
        /\ result[p].kind = "returned"

\* C36: extract, act, observe and agent called with a sessionId send no
\* session-start and no navigate request, with or without a url; a call that
\* has sent a navigate request works on the session it created itself, and
\* when such a call is in its operation step its one navigate step is over:
\* one request, or two when the region was corrected in between.
C36_NavigateOnlyForOwnSession ==
    \A p \in DOMAIN pc :
        op[p] \in Operations =>
            /\ (sid[p] # None /\ ~ownSession[p]) =>
                  /\ effects[p].start = 0
                  /\ effects[p].navigate = 0
                  /\ rr[p].step # "navigate"
            /\ effects[p].navigate > 0 =>
                  /\ ownSession[p]
                  /\ effects[p].start = 1
                  /\ sid[p] = SessionIdOf(created)
            /\ (ownSession[p] /\ effects[p].operate > 0) =>
                  /\ effects[p].navigate \in 1..2
                  /\ effects[p].navigate = 2 => Len(effects[p].hooks) >= 1

\* An observe on a supplied session that came with a url has returned after
\* its operation request, without a navigate request.
C36_Witness ==
    \E p \in DOMAIN pc :
        /\ op[p] = "observe"
        /\ sid[p] = ForeignSessionId
        /\ url[p] # None
        /\ pc[p] = "done"
        /\ result[p].kind = "returned"
        /\ effects[p].operate = 1
        /\ effects[p].navigate = 0

\* C37: the write that follows a successful session start creates the record
\* of the new session, and the region it records is the region whose base
\* url the start request was sent to: the region the caller declared when it
\* is one of the four known regions, the default region otherwise.
C37_FirstRegionIsStartHost ==
    [][\A p \in DOMAIN pc :
          (pc[p] = "persistStart" /\ pc'[p] # "persistStart") =>
              /\ ~HasRow(sessions, sid[p])
              /\ HasRow(sessions', sid[p])
              /\ getApiBase(Row(sessions', sid[p]).region) = StartRequestOf(p).base
              /\ Row(sessions', sid[p]).region =
                    (IF rawRegion[p] \in BrowserbaseRegion
                     THEN rawRegion[p]
                     ELSE DEFAULT_BROWSERBASE_REGION)]_vars

\* A startSession that declared eu-central-1 has just written the record of
\* its new session, beside the record of a foreign session: the region of
\* the record is eu-central-1 and no session-scoped request was sent yet.
C37_Witness ==
    \E p \in DOMAIN pc :
        /\ op[p] = "startSession"
        /\ pc[p] = "attempt1"
        /\ rr[p].step = "navigate"
        /\ rr[p].attempts = <<>>
        /\ effects[p].start = 1
        /\ effects[p].writes = 1
        /\ Row(sessions, sid[p]).region = "eu-central-1"
        /\ Len(sessions) = 2

\* C38: in every state of the sessions table a record carries an error
\* message exactly when its status is error.
C38_ErrorMessageIffStatusError ==
    \A i \in 1..Len(sessions) :
        sessions[i].error # None <=> sessions[i].status = "error"

\* The requests of steps the workflow has sent: everything after the start
\* and the first navigate that is not an end request.
StepRequests == {k \in 3..Len(wf.issued) : wf.issued[k].fn # "endSession"}

\* C40: the workflow sends one start request, the navigate to its url and
\* then the requests of its steps in list order, all for the session the
\* start returned; the results list holds one entry per step that was
\* carried out, in list order; a step that failed is the last one sent, only
\* end requests follow it, and the workflow does not return; a workflow that
\* returns has carried out every step.
C40_WorkflowStepsInOrder ==
    LET n == Cardinality(StepRequests)
        done == Len(wf.results)
    IN /\ n <= Len(wf.steps)
       /\ \A k \in 1..Len(wf.issued) :
             LET request == wf.issued[k]
             IN /\ k = 1 => request.fn = "startSession"
                /\ k = 2 => /\ request.fn = "navigate"
                            /\ request.text = wf.url
                /\ (k > 2 /\ k <= 2 + n) =>
                      /\ request.fn = wf.steps[k - 2].type
                      /\ request.text = wf.steps[k - 2].text
                /\ k > 2 + n => request.fn = "endSession"
                /\ k > 1 => request.sessionId = wf.session /\ wf.session # None
       /\ done \in {n, n - 1}
       /\ \A k \in 1..done :
             /\ wf.results[k].type = wf.steps[k].type
             /\ wf.steps[k].type = "navigate" => wf.results[k].url = wf.steps[k].text
       /\ done < n =>
             /\ wf.pc \in {"endCatch", "done"}
             /\ wf.outcome # "returned"
             /\ wf.caught.step = n
       /\ wf.outcome = "returned" =>
             /\ done = Len(wf.steps)
             /\ wf.finalResult = (IF done > 0 THEN wf.results[done] ELSE NoStepResult)

\* A workflow of three steps has thrown the error of its second step: one
\* result was pushed, the third step was never sent and the session was
\* ended.
C40_Witness ==
    /\ wf.pc = "done"
    /\ wf.outcome = "thrown"
    /\ wf.thrown = [at |-> "step", step |-> 2]
    /\ Len(wf.steps) = 3
    /\ wf.steps[1].type = "act"
    /\ wf.steps[2].type = "extract"
    /\ Len(wf.results) = 1
    /\ [i \in 1..Len(wf.issued) |-> wf.issued[i].fn]
          = <<"startSession", "navigate", "act", "extract", "endSession">>

\* C39: when every remote call and every store call eventually returns or
\* fails, a public call that has begun eventually returns or throws, also
\* against a service that answers every request with a region mismatch.
C39_EveryCallFinishes ==
    \A p \in {1} : (pc[p] # "idle") ~> (pc[p] = "done")

\* An extract that created its session has finished although the service
\* answered its navigate and end requests with a region mismatch each time:
\* both steps were sent twice, the operation step never, and the call has
\* thrown.
C39_Witness ==
    \E p \in DOMAIN pc :
        /\ op[p] = "extract"
        /\ ownSession[p]
        /\ pc[p] = "done"
        /\ result[p].kind = "thrown"
        /\ effects[p].navigate = 2
        /\ effects[p].end = 2
        /\ Len(effects[p].hooks) = 2
        /\ Row(sessions, sid[p]).status = "error"
====
